---- MODULE Spec2Model ----
(***************************************************************************)
(* Model of the civil-time crate: the field normaliser (core.rs), the six  *)
(* alignment strategies and the day difference (granularity.rs) and the    *)
(* civil-time value types built on them (lib.rs, convert.rs).              *)
(*                                                                         *)
(* YearType and DiffType are signed integers of Width bits.  Every         *)
(* function of the crate is modelled as an operator that computes the      *)
(* mathematical value of each intermediate of the code and reports, in     *)
(* the field ok, whether all of them fit the scalar type (Rust panics on   *)
(* overflow in debug and const evaluation and wraps in release; when ok    *)
(* holds both builds compute the value given here).                        *)
(***************************************************************************)
EXTENDS Integers, Sequences, FiniteSets, TLC

\* ------------------------------------------------------------------ bounds
\* Width of YearType / DiffType in the model (i64 in the crate).
Width == 22
\* Number of +n / -n / From operations applied to a constructed value.
MaxOps == 2
\* Number of unit steps the reference calendar walks away from a base.
MaxWalk == 370
\* Number of whole years the reference calendar walks away from a base.
MaxYears == 830
\* Number of single months the reference calendar walks away from an anchor
\* month.
MaxMonths == 60

DiffMax == 2^(Width - 1) - 1
DiffMin == -(2^(Width - 1))

\* ------------------------------------------------- Rust integer semantics
\* `/` of Rust: quotient truncated toward zero (b > 0 at every call site).
Quot(a, b) == IF a >= 0 THEN a \div b ELSE -((-a) \div b)
\* `%` of Rust: remainder with the sign of the dividend.
Rem(a, b) == a - b * Quot(a, b)
\* All values of S are representable in the scalar type.
Fits(S) == \A x \in S : DiffMin <= x /\ x <= DiffMax
\* Two's complement value of x in a signed type of w bits.
WrapTo(x, w) == ((x + 2^(w - 1)) % 2^w) - 2^(w - 1)
\* `as i8` casts to MonthType, DayType, HourType, MinuteType, SecondType.
as_i8(x) == WrapTo(x, 8)
\* Unary minus of DiffType (wraps on the most negative value).
neg(n) == WrapTo(-n, Width)

Kinds == <<"Second", "Minute", "Hour", "Day", "Month", "Year">>
KindSet == {Kinds[i] : i \in 1..6}

\* ------------------------------------------------------- calendar helpers
\* Mutant: every fourth year is a leap year.
is_leap_year_every_fourth(y) == Rem(y, 4) = 0

is_leap_year(y) == Rem(y, 4) = 0 /\ (Rem(y, 100) # 0 \/ Rem(y, 400) = 0)

\* Mutant: the remainder is returned with the sign of the year.
year_index_signed_remainder(y, m) ==
    Rem(y + (IF m > 2 THEN 1 ELSE 0), 400)

year_index(y, m) ==
    LET yi == Rem(y + (IF m > 2 THEN 1 ELSE 0), 400)
    IN  IF yi < 0 THEN yi + 400 ELSE yi

days_per_century(yi) == 36524 + (IF yi = 0 \/ yi > 300 THEN 1 ELSE 0)

\* The values `yi - 1` takes in days_per_4years(yi): the operand is evaluated
\* only when `yi == 0 || yi > 300` is false.
days_per_4years_operands(yi) == IF yi = 0 \/ yi > 300 THEN {} ELSE {yi - 1}

\* Mutant: every 4 years have a leap day.
days_per_4years_always_leap(yi) == 1461

days_per_4years(yi) ==
    1460 + (IF yi = 0 \/ yi > 300 \/ Rem(yi - 1, 100) < 96 THEN 1 ELSE 0)

\* Mutant: the leap test looks at year y whatever the month.
days_per_year_ignores_month(y, m) == IF is_leap_year(y) THEN 366 ELSE 365

days_per_year(y, m) ==
    IF is_leap_year(y + (IF m > 2 THEN 1 ELSE 0)) THEN 366 ELSE 365

\* The table is indexed from 0 in the crate, from 1 here.
DAYS_PER_MONTH == <<-1, 31, 28, 31, 30, 31, 30, 31, 31, 30, 31, 30, 31>>

\* Mutant: February is never given its leap day.
days_per_month_never_leap(y, m) == DAYS_PER_MONTH[m + 1]

\* Mutant: February is given its leap day in every year.
days_per_month_always_leap(y, m) ==
    DAYS_PER_MONTH[m + 1] + (IF m = 2 THEN 1 ELSE 0)

days_per_month(y, m) ==
    DAYS_PER_MONTH[m + 1] + (IF m = 2 /\ is_leap_year(y) THEN 1 ELSE 0)

MkFields(y, m, d, hh, mm, ss) ==
    [y |-> y, m |-> m, d |-> d, hh |-> hh, mm |-> mm, ss |-> ss]

\* ------------------------------------------------------------ Fields::n_day
\* The value of the one element of S.  The functions below bind their
\* arguments and their locals as { e : x \in {arg} }, so that every argument
\* is evaluated once, as in a call by value.
Val(S) == CHOOSE r \in S : TRUE

\* The loops of n_day work on [ey, yi, d, m] and record the values ey takes
\* (chk), the number of iterations of each loop (c100, c4, c1, cm), the values
\* of yi that days_per_century and days_per_4years are called with (yis), the
\* values of `yi - 1` (subs) and the indices DAYS_PER_MONTH is read at (mis).
RECURSIVE century_loop(_)
century_loop(s_) ==
    Val({ IF s.d <= days_per_century(s.yi) THEN [s EXCEPT !.yis = @ \cup {s.yi}]
          ELSE century_loop([s EXCEPT !.d = s.d - days_per_century(s.yi),
                                      !.ey = s.ey + 100,
                                      !.yi = IF s.yi + 100 >= 400 THEN s.yi + 100 - 400
                                             ELSE s.yi + 100,
                                      !.chk = s.chk \cup {s.ey + 100},
                                      !.yis = @ \cup {s.yi},
                                      !.c100 = s.c100 + 1])
        : s \in {s_} })

RECURSIVE four_year_loop(_)
four_year_loop(s_) ==
    Val({ IF s.d <= days_per_4years(s.yi)
          THEN [s EXCEPT !.yis = @ \cup {s.yi},
                         !.subs = @ \cup days_per_4years_operands(s.yi)]
          ELSE four_year_loop([s EXCEPT !.d = s.d - days_per_4years(s.yi),
                                        !.ey = s.ey + 4,
                                        !.yi = IF s.yi + 4 >= 400 THEN s.yi + 4 - 400
                                               ELSE s.yi + 4,
                                        !.chk = s.chk \cup {s.ey + 4},
                                        !.yis = @ \cup {s.yi},
                                        !.subs = @ \cup days_per_4years_operands(s.yi),
                                        !.c4 = s.c4 + 1])
        : s \in {s_} })

RECURSIVE year_loop(_)
year_loop(s_) ==
    Val({ IF s.d <= days_per_year(s.ey, s.m) THEN s
          ELSE year_loop([s EXCEPT !.d = s.d - days_per_year(s.ey, s.m),
                                   !.ey = s.ey + 1,
                                   !.chk = s.chk \cup {s.ey + 1},
                                   !.c1 = s.c1 + 1])
        : s \in {s_} })

RECURSIVE month_loop(_)
month_loop(s_) ==
    Val({ IF s.d <= days_per_month(s.ey, s.m) THEN [s EXCEPT !.mis = @ \cup {s.m}]
          ELSE month_loop([s EXCEPT !.d = s.d - days_per_month(s.ey, s.m),
                                    !.m = IF s.m + 1 > 12 THEN 1 ELSE s.m + 1,
                                    !.ey = IF s.m + 1 > 12 THEN s.ey + 1 ELSE s.ey,
                                    !.chk = s.chk \cup
                                            (IF s.m + 1 > 12 THEN {s.ey + 1} ELSE {}),
                                    !.mis = @ \cup {s.m},
                                    !.cm = s.cm + 1])
        : s \in {s_} })

\* Mutant: a day count above one 400-year cycle is left to the chunk loops.
n_day_reduce_one_cycle_kept(y, m, d, cd) ==
    LET oey == Rem(y, 400)
        ey1 == oey + Quot(cd, 146097) * 400
        cd1 == Rem(cd, 146097)
        ey2 == IF cd1 < 0 THEN ey1 - 400 ELSE ey1
        cd2 == IF cd1 < 0 THEN cd1 + 146097 ELSE cd1
        ey3 == ey2 + Quot(d, 146097) * 400
        d1  == Rem(d, 146097) + cd2
    IN  Val({ [ey  |-> IF a.d1 > 0
                       THEN a.ey3
                       ELSE (IF a.d1 > -365 THEN a.ey3 - 1 ELSE a.ey3 - 400),
               d   |-> IF a.d1 > 0
                       THEN a.d1
                       ELSE (IF a.d1 > -365
                             THEN a.d1 + days_per_year(a.ey3 - 1, m)
                             ELSE a.d1 + 146097),
               chk |-> a.chk \cup {a.d1, a.ey3}]
            : a \in {[d1 |-> d1, ey3 |-> ey3,
                      chk |-> {Quot(cd, 146097) * 400, ey1, ey2,
                               Quot(d, 146097) * 400}]} })

\* n_day up to the `if d > 365`: the 146097-day reductions and the
\* previous-year special case.
n_day_reduce(y, m, d, cd) ==
    LET oey == Rem(y, 400)
        ey1 == oey + Quot(cd, 146097) * 400
        cd1 == Rem(cd, 146097)
        ey2 == IF cd1 < 0 THEN ey1 - 400 ELSE ey1
        cd2 == IF cd1 < 0 THEN cd1 + 146097 ELSE cd1
        ey3 == ey2 + Quot(d, 146097) * 400
        d1  == Rem(d, 146097) + cd2
    IN  Val({ [ey  |-> IF a.d1 > 0
                       THEN (IF a.d1 > 146097 THEN a.ey3 + 400 ELSE a.ey3)
                       ELSE (IF a.d1 > -365 THEN a.ey3 - 1 ELSE a.ey3 - 400),
               d   |-> IF a.d1 > 0
                       THEN (IF a.d1 > 146097 THEN a.d1 - 146097 ELSE a.d1)
                       ELSE (IF a.d1 > -365
                             THEN a.d1 + days_per_year(a.ey3 - 1, m)
                             ELSE a.d1 + 146097),
               chk |-> a.chk \cup {a.d1, a.ey3}]
            : a \in {[d1 |-> d1, ey3 |-> ey3,
                      chk |-> {Quot(cd, 146097) * 400, ey1, ey2,
                               Quot(d, 146097) * 400}]} })

\* The chunk loops and the month loop of n_day.
n_day_loops(s0_) ==
    Val({ Val({ IF s1.d > 28 THEN month_loop(s1) ELSE s1
              : s1 \in {IF s0.d > 365
                        THEN year_loop(four_year_loop(century_loop(s0)))
                        ELSE s0} })
        : s0 \in {s0_} })

n_day(y_, m_, d_, cd_, hh, mm, ss) ==
    Val({ Val({ Val({ [f    |-> MkFields(y + (s.ey - Rem(y, 400)), s.m, as_i8(s.d),
                                         hh, mm, ss),
                       ok   |-> Fits(s.chk \cup {r.ey, r.d, s.ey - Rem(y, 400),
                                                 y + (s.ey - Rem(y, 400))}),
                       path |-> "n_day",
                       mpre |-> m,
                       dred |-> r.d,
                       dpre |-> s.d,
                       hpre |-> hh, minpre |-> mm, spre |-> ss,
                       yis  |-> s.yis, subs |-> s.subs, mis |-> s.mis,
                       c100 |-> s.c100, c4 |-> s.c4, c1 |-> s.c1, cm |-> s.cm]
                    : s \in {n_day_loops([ey |-> r.ey, yi |-> year_index(r.ey, m),
                                          d |-> r.d, m |-> m, chk |-> r.chk,
                                          yis |-> {}, subs |-> {}, mis |-> {},
                                          c100 |-> 0, c4 |-> 0, c1 |-> 0, cm |-> 0])} })
              : r \in {n_day_reduce(y, m, d, cd)} })
        : y \in {y_}, m \in {m_}, d \in {d_}, cd \in {cd_} })

\* ------------------------------------------- Fields::n_mon .. Fields::n_sec
\* Mutant: a month remainder of zero does not borrow a year.
n_mon_strict_borrow(y_, m_, d, cd, hh, mm, ss) ==
    Val({ LET y1 == y + Quot(m, 12)
              m1 == Rem(m, 12)
              y2 == IF m1 < 0 THEN y1 - 1 ELSE y1
              m2 == IF m1 < 0 THEN m1 + 12 ELSE m1
              ny == IF m # 12 THEN y2 ELSE y
              nm == IF m # 12 THEN m2 ELSE m
          IN  [n_day(ny, as_i8(nm), d, cd, hh, mm, ss)
                  EXCEPT !.ok = @ /\ Fits(IF m # 12 THEN {y1, y2} ELSE {}),
                         !.path = "n_mon",
                         !.mpre = nm]
        : y \in {y_}, m \in {m_} })

n_mon(y_, m_, d, cd, hh, mm, ss) ==
    Val({ LET y1 == y + Quot(m, 12)
              m1 == Rem(m, 12)
              y2 == IF m1 <= 0 THEN y1 - 1 ELSE y1
              m2 == IF m1 <= 0 THEN m1 + 12 ELSE m1
              ny == IF m # 12 THEN y2 ELSE y
              nm == IF m # 12 THEN m2 ELSE m
          IN  [n_day(ny, as_i8(nm), d, cd, hh, mm, ss)
                  EXCEPT !.ok = @ /\ Fits(IF m # 12 THEN {y1, y2} ELSE {}),
                         !.path = "n_mon",
                         !.mpre = nm]
        : y \in {y_}, m \in {m_} })

n_hour(y, m, d, cd_, hh_, mm, ss) ==
    Val({ LET cd1 == cd + Quot(hh, 24)
              hh1 == Rem(hh, 24)
              cd2 == IF hh1 < 0 THEN cd1 - 1 ELSE cd1
              hh2 == IF hh1 < 0 THEN hh1 + 24 ELSE hh1
          IN  [n_mon(y, m, d, cd2, as_i8(hh2), mm, ss)
                  EXCEPT !.ok = @ /\ Fits({cd1, cd2}),
                         !.path = "n_hour",
                         !.hpre = hh2]
        : cd \in {cd_}, hh \in {hh_} })

n_min(y, m, d, hh_, ch_, mm_, ss) ==
    Val({ LET ch1 == ch + Quot(mm, 60)
              mm1 == Rem(mm, 60)
              ch2 == IF mm1 < 0 THEN ch1 - 1 ELSE ch1
              mm2 == IF mm1 < 0 THEN mm1 + 60 ELSE mm1
              cd  == Quot(hh, 24) + Quot(ch2, 24)
              nhh == Rem(hh, 24) + Rem(ch2, 24)
          IN  [n_hour(y, m, d, cd, nhh, as_i8(mm2), ss)
                  EXCEPT !.ok = @ /\ Fits({ch1, ch2, cd, nhh}),
                         !.path = "n_min",
                         !.minpre = mm2]
        : hh \in {hh_}, ch \in {ch_}, mm \in {mm_} })

\* Mutant: a negative second remainder does not borrow a minute.
n_sec_truncating_carry(y_, m_, d_, hh_, mm_, ss_) ==
    Val({ IF 0 <= ss /\ ss < 60
          THEN IF 0 <= mm /\ mm < 60
               THEN IF 0 <= hh /\ hh < 24
                    THEN IF 1 <= d /\ d <= 28 /\ 1 <= m /\ m <= 12
                         THEN [f    |-> MkFields(y, as_i8(m), as_i8(d), as_i8(hh),
                                                 as_i8(mm), as_i8(ss)),
                               ok   |-> TRUE,
                               path |-> "fast",
                               mpre |-> m, dred |-> d, dpre |-> d,
                               hpre |-> hh, minpre |-> mm, spre |-> ss,
                               yis  |-> {}, subs |-> {}, mis |-> {},
                               c100 |-> 0, c4 |-> 0, c1 |-> 0, cm |-> 0]
                         ELSE n_mon(y, m, d, 0, as_i8(hh), as_i8(mm), as_i8(ss))
                    ELSE n_hour(y, m, d, Quot(hh, 24), Rem(hh, 24),
                                as_i8(mm), as_i8(ss))
               ELSE n_min(y, m, d, hh, Quot(mm, 60), Rem(mm, 60), as_i8(ss))
          ELSE LET cm1 == Quot(ss, 60)
                   ss1 == Rem(ss, 60)
                   cm2 == cm1
                   ss2 == IF ss1 < 0 THEN ss1 + 60 ELSE ss1
                   ch  == Quot(mm, 60) + Quot(cm2, 60)
                   nmm == Rem(mm, 60) + Rem(cm2, 60)
               IN  [n_min(y, m, d, hh, ch, nmm, as_i8(ss2))
                       EXCEPT !.ok = @ /\ Fits({cm2, ch, nmm}),
                              !.path = "cascade",
                              !.spre = ss2]
        : y \in {y_}, m \in {m_}, d \in {d_}, hh \in {hh_}, mm \in {mm_},
          ss \in {ss_} })

n_sec(y_, m_, d_, hh_, mm_, ss_) ==
    Val({ IF 0 <= ss /\ ss < 60
          THEN IF 0 <= mm /\ mm < 60
               THEN IF 0 <= hh /\ hh < 24
                    THEN IF 1 <= d /\ d <= 28 /\ 1 <= m /\ m <= 12
                         THEN [f    |-> MkFields(y, as_i8(m), as_i8(d), as_i8(hh),
                                                 as_i8(mm), as_i8(ss)),
                               ok   |-> TRUE,
                               path |-> "fast",
                               mpre |-> m, dred |-> d, dpre |-> d,
                               hpre |-> hh, minpre |-> mm, spre |-> ss,
                               yis  |-> {}, subs |-> {}, mis |-> {},
                               c100 |-> 0, c4 |-> 0, c1 |-> 0, cm |-> 0]
                         ELSE n_mon(y, m, d, 0, as_i8(hh), as_i8(mm), as_i8(ss))
                    ELSE n_hour(y, m, d, Quot(hh, 24), Rem(hh, 24),
                                as_i8(mm), as_i8(ss))
               ELSE n_min(y, m, d, hh, Quot(mm, 60), Rem(mm, 60), as_i8(ss))
          ELSE LET cm1 == Quot(ss, 60)
                   ss1 == Rem(ss, 60)
                   cm2 == IF ss1 < 0 THEN cm1 - 1 ELSE cm1
                   ss2 == IF ss1 < 0 THEN ss1 + 60 ELSE ss1
                   ch  == Quot(mm, 60) + Quot(cm2, 60)
                   nmm == Rem(mm, 60) + Rem(cm2, 60)
               IN  [n_min(y, m, d, hh, ch, nmm, as_i8(ss2))
                       EXCEPT !.ok = @ /\ Fits({cm2, ch, nmm}),
                              !.path = "cascade",
                              !.spre = ss2]
        : y \in {y_}, m \in {m_}, d \in {d_}, hh \in {hh_}, mm \in {mm_},
          ss \in {ss_} })

\* ------------------------------------------- scale_add, ymd_ord, day_difference
\* Mutant: the residual is added on the wrong side of zero.
scale_add_negated_residual(v_, f, a_) ==
    Val({ [v |-> v * f - a, ok |-> Fits({v * f, v * f - a})] : v \in {v_}, a \in {a_} })

\* Mutant: the product is formed first.
scale_add_product_first(v_, f, a_) ==
    Val({ [v |-> v * f + a, ok |-> Fits({v * f, v * f + a})] : v \in {v_}, a \in {a_} })

scale_add(v_, f, a_) ==
    Val({ IF v < 0
          THEN [v  |-> ((v + 1) * f + a) - f,
                ok |-> Fits({v + 1, (v + 1) * f, (v + 1) * f + a,
                             ((v + 1) * f + a) - f})]
          ELSE [v  |-> ((v - 1) * f + a) + f,
                ok |-> Fits({v - 1, (v - 1) * f, (v - 1) * f + a,
                             ((v - 1) * f + a) + f})]
        : v \in {v_}, a \in {a_} })

\* Mutant: centuries are counted as leap years.
ymd_ord_no_century_rule(y_, m_, d_) ==
    Val({ LET eyear == IF m <= 2 THEN y - 1 ELSE y
              era   == Quot(IF eyear >= 0 THEN eyear ELSE eyear - 399, 400)
              yoe   == eyear - era * 400
              mp    == m + (IF m > 2 THEN -3 ELSE 9)
              doy   == Quot(153 * mp + 2, 5) + d - 1
              doe   == yoe * 365 + Quot(yoe, 4) + doy
          IN  [v  |-> era * 146097 + doe - 719468,
               ok |-> Fits({eyear, IF eyear >= 0 THEN eyear ELSE eyear - 399,
                            era * 400, yoe, yoe * 365, doy, doe,
                            era * 146097, era * 146097 + doe,
                            era * 146097 + doe - 719468})]
        : y \in {y_}, m \in {m_}, d \in {d_} })

ymd_ord(y_, m_, d_) ==
    Val({ LET eyear == IF m <= 2 THEN y - 1 ELSE y
              era   == Quot(IF eyear >= 0 THEN eyear ELSE eyear - 399, 400)
              yoe   == eyear - era * 400
              mp    == m + (IF m > 2 THEN -3 ELSE 9)
              doy   == Quot(153 * mp + 2, 5) + d - 1
              doe   == yoe * 365 + Quot(yoe, 4) - Quot(yoe, 100) + doy
          IN  [v  |-> era * 146097 + doe - 719468,
               ok |-> Fits({eyear, IF eyear >= 0 THEN eyear ELSE eyear - 399,
                            era * 400, yoe, yoe * 365, doy, doe,
                            era * 146097, era * 146097 + doe,
                            era * 146097 + doe - 719468})]
        : y \in {y_}, m \in {m_}, d \in {d_} })

\* Mutant: c4_diff and delta are never rebalanced.
day_difference_unbalanced(y1, m1, d1, y2, m2, d2) ==
    Val({ LET up      == FALSE
              down    == FALSE
              delta   == IF up THEN a.delta + 2 * 146097
                         ELSE IF down THEN a.delta - 2 * 146097 ELSE a.delta
              c4_diff == IF up THEN a.c4_diff - 2 * 400
                         ELSE IF down THEN a.c4_diff + 2 * 400 ELSE a.c4_diff
              scaled  == Quot(c4_diff, 400) * 146097
          IN  [v  |-> scaled + delta,
               ok |-> a.ok /\ Fits({a.c4_diff, a.delta, delta, c4_diff, scaled,
                                    scaled + delta}),
               rebalanced |-> up \/ down]
        : a \in { Val({ [c4_diff |-> (y1 - Rem(y1, 400)) - (y2 - Rem(y2, 400)),
                         delta   |-> oa.v - ob.v,
                         ok      |-> oa.ok /\ ob.ok /\
                                     Fits({y1 - Rem(y1, 400), y2 - Rem(y2, 400)})]
                      : oa \in {ymd_ord(Rem(y1, 400), m1, d1)},
                        ob \in {ymd_ord(Rem(y2, 400), m2, d2)} }) } })

\* Mutant: the downward rebalancing moves delta by one cycle, not two.
day_difference_half_rebalance(y1, m1, d1, y2, m2, d2) ==
    Val({ LET up      == a.c4_diff > 0 /\ a.delta < 0
              down    == a.c4_diff < 0 /\ a.delta > 0
              delta   == IF up THEN a.delta + 2 * 146097
                         ELSE IF down THEN a.delta - 146097 ELSE a.delta
              c4_diff == IF up THEN a.c4_diff - 2 * 400
                         ELSE IF down THEN a.c4_diff + 2 * 400 ELSE a.c4_diff
              scaled  == Quot(c4_diff, 400) * 146097
          IN  [v  |-> scaled + delta,
               ok |-> a.ok /\ Fits({a.c4_diff, a.delta, delta, c4_diff, scaled,
                                    scaled + delta}),
               rebalanced |-> up \/ down]
        : a \in { Val({ [c4_diff |-> (y1 - Rem(y1, 400)) - (y2 - Rem(y2, 400)),
                         delta   |-> oa.v - ob.v,
                         ok      |-> oa.ok /\ ob.ok /\
                                     Fits({y1 - Rem(y1, 400), y2 - Rem(y2, 400)})]
                      : oa \in {ymd_ord(Rem(y1, 400), m1, d1)},
                        ob \in {ymd_ord(Rem(y2, 400), m2, d2)} }) } })

day_difference(y1, m1, d1, y2, m2, d2) ==
    Val({ LET up      == a.c4_diff > 0 /\ a.delta < 0
              down    == a.c4_diff < 0 /\ a.delta > 0
              delta   == IF up THEN a.delta + 2 * 146097
                         ELSE IF down THEN a.delta - 2 * 146097 ELSE a.delta
              c4_diff == IF up THEN a.c4_diff - 2 * 400
                         ELSE IF down THEN a.c4_diff + 2 * 400 ELSE a.c4_diff
              scaled  == Quot(c4_diff, 400) * 146097
          IN  [v  |-> scaled + delta,
               ok |-> a.ok /\ Fits({a.c4_diff, a.delta, delta, c4_diff, scaled,
                                    scaled + delta}),
               rebalanced |-> up \/ down]
        : a \in { Val({ [c4_diff |-> (y1 - Rem(y1, 400)) - (y2 - Rem(y2, 400)),
                         delta   |-> oa.v - ob.v,
                         ok      |-> oa.ok /\ ob.ok /\
                                     Fits({y1 - Rem(y1, 400), y2 - Rem(y2, 400)})]
                      : oa \in {ymd_ord(Rem(y1, 400), m1, d1)},
                        ob \in {ymd_ord(Rem(y2, 400), m2, d2)} }) } })

\* ------------------------------------------------ the six alignment strategies
Second_step(f_, n_) ==
    Val({ n_sec(f.y, f.m, f.d, f.hh, f.mm + Quot(n, 60), f.ss + Rem(n, 60))
        : f \in {f_}, n \in {n_} })

\* Mutant: the minute residual is taken modulo 60 (never negative) while the
\* hours are the truncated quotient.
Minute_step_floor_residual(f_, n_) ==
    Val({ n_min(f.y, f.m, f.d, f.hh + Quot(n, 60), 0, f.mm + (n % 60), f.ss)
        : f \in {f_}, n \in {n_} })

Minute_step(f_, n_) ==
    Val({ n_min(f.y, f.m, f.d, f.hh + Quot(n, 60), 0, f.mm + Rem(n, 60), f.ss)
        : f \in {f_}, n \in {n_} })

Hour_step(f_, n_) ==
    Val({ n_hour(f.y, f.m, f.d + Quot(n, 24), 0, f.hh + Rem(n, 24), f.mm, f.ss)
        : f \in {f_}, n \in {n_} })

Day_step(f_, n_) ==
    Val({ n_day(f.y, f.m, f.d, n, f.hh, f.mm, f.ss) : f \in {f_}, n \in {n_} })

Month_step(f_, n_) ==
    Val({ [n_mon(f.y + Quot(n, 12), f.m + Rem(n, 12), f.d, 0, f.hh, f.mm, f.ss)
              EXCEPT !.ok = @ /\ Fits({f.y + Quot(n, 12)})]
        : f \in {f_}, n \in {n_} })

Year_step(f_, n_) ==
    Val({ [f |-> [f EXCEPT !.y = f.y + n], ok |-> Fits({f.y + n})]
        : f \in {f_}, n \in {n_} })

\* Mutant: the operands are subtracted the other way round.
Year_difference_reversed(f1, f2) == [v |-> f2.y - f1.y, ok |-> Fits({f2.y - f1.y})]

Year_difference(f1, f2) == [v |-> f1.y - f2.y, ok |-> Fits({f1.y - f2.y})]

\* scale_add(c, f, a) for a coarser difference c that carries its ok flag.
scaled_difference(c_, f, a) ==
    Val({ Val({ [v |-> r.v, ok |-> c.ok /\ r.ok] : r \in {scale_add(c.v, f, a)} })
        : c \in {c_} })

Month_difference(f1, f2) ==
    scaled_difference(Year_difference(f1, f2), 12, f1.m - f2.m)

Day_difference(f1, f2) == day_difference(f1.y, f1.m, f1.d, f2.y, f2.m, f2.d)

\* Mutant: the hour difference is scaled from the month difference.
Hour_difference_from_months(f1, f2) ==
    scaled_difference(Month_difference(f1, f2), 24, f1.hh - f2.hh)

Hour_difference(f1, f2) ==
    scaled_difference(Day_difference(f1, f2), 24, f1.hh - f2.hh)

Minute_difference(f1, f2) ==
    scaled_difference(Hour_difference(f1, f2), 60, f1.mm - f2.mm)

Second_difference(f1, f2) ==
    scaled_difference(Minute_difference(f1, f2), 60, f1.ss - f2.ss)

Second_align(f) == f
Minute_align(f) == MkFields(f.y, f.m, f.d, f.hh, f.mm, 0)
Hour_align(f)   == MkFields(f.y, f.m, f.d, f.hh, 0, 0)
\* Mutant: the day alignment keeps the hour, as the hour alignment does.
Day_align_keeps_hour(f) == MkFields(f.y, f.m, f.d, f.hh, 0, 0)
Day_align(f)    == MkFields(f.y, f.m, f.d, 0, 0, 0)
\* Mutant: the month alignment keeps the day, as the day alignment does.
Month_align_keeps_day(f) == MkFields(f.y, f.m, f.d, 0, 0, 0)
Month_align(f)  == MkFields(f.y, f.m, 1, 0, 0, 0)
Year_align(f)   == MkFields(f.y, 1, 1, 0, 0, 0)

\* $Alignment::step, $Alignment::difference and $Alignment::align of the
\* impl_civil_time_type! macro, selected by the alignment of the type.
step(k, f, n) ==
    CASE k = "Second" -> Second_step(f, n)
      [] k = "Minute" -> Minute_step(f, n)
      [] k = "Hour"   -> Hour_step(f, n)
      [] k = "Day"    -> Day_step(f, n)
      [] k = "Month"  -> Month_step(f, n)
      [] k = "Year"   -> Year_step(f, n)

align(k, f) ==
    CASE k = "Second" -> Second_align(f)
      [] k = "Minute" -> Minute_align(f)
      [] k = "Hour"   -> Hour_align(f)
      [] k = "Day"    -> Day_align(f)
      [] k = "Month"  -> Month_align(f)
      [] k = "Year"   -> Year_align(f)

\* ------------------------------------------------- the civil-time value types
\* A value is [kind, f]: the alignment of its type and its Fields.
from_fields(k, fields) == [kind |-> k, f |-> align(k, fields)]

\* Mutant: the normalised fields are not aligned.
from_ymd_hms_without_align(k, y, m, d, hh, mm, ss) ==
    Val({ [v |-> [kind |-> k, f |-> r.f], ok |-> r.ok, path |-> r.path]
        : r \in {n_sec(y, m, d, hh, mm, ss)} })

from_ymd_hms(k, y, m, d, hh, mm, ss) ==
    Val({ [v |-> from_fields(k, r.f), ok |-> r.ok, path |-> r.path]
        : r \in {n_sec(y, m, d, hh, mm, ss)} })

\* $Type::MAX and $Type::MIN.
MAX(k) == from_ymd_hms(k, DiffMax, 12, 31, 23, 59, 59)

MIN(k) == from_ymd_hms(k, DiffMin, 1, 1, 0, 0, 0)

add_diff(a, n) ==
    Val({ [v |-> from_fields(a.kind, r.f), ok |-> r.ok]
        : r \in {step(a.kind, a.f, n)} })

\* Mutant: no special case for the most negative operand.
sub_diff_always_negates(a, n) ==
    Val({ [v |-> from_fields(a.kind, r.f), ok |-> r.ok /\ Fits({-n})]
        : r \in {step(a.kind, a.f, neg(n))} })

sub_diff(a, n) ==
    IF n # DiffMin
    THEN Val({ [v |-> from_fields(a.kind, r.f), ok |-> r.ok /\ Fits({-n})]
             : r \in {step(a.kind, a.f, neg(n))} })
    ELSE Val({ Val({ [v  |-> from_fields(a.kind, r2.f),
                      ok |-> r1.ok /\ r2.ok /\ Fits({n + 1, -(n + 1)})]
                   : r2 \in {step(a.kind, r1.f, 1)} })
             : r1 \in {step(a.kind, a.f, neg(n + 1))} })

\* `a - b` of two values of the same type.
difference(a, b) ==
    CASE a.kind = "Second" -> Second_difference(a.f, b.f)
      [] a.kind = "Minute" -> Minute_difference(a.f, b.f)
      [] a.kind = "Hour"   -> Hour_difference(a.f, b.f)
      [] a.kind = "Day"    -> Day_difference(a.f, b.f)
      [] a.kind = "Month"  -> Month_difference(a.f, b.f)
      [] a.kind = "Year"   -> Year_difference(a.f, b.f)

\* The constructors: each type passes its leading arguments and the minimum
\* of the fields it has no argument for.
CivilSecond_new(y, m, d, hh, mm, ss) == from_ymd_hms("Second", y, m, d, hh, mm, ss)
CivilMinute_new(y, m, d, hh, mm)     == from_ymd_hms("Minute", y, m, d, hh, mm, 0)
CivilHour_new(y, m, d, hh)           == from_ymd_hms("Hour", y, m, d, hh, 0, 0)
CivilDay_new(y, m, d)                == from_ymd_hms("Day", y, m, d, 0, 0, 0)
CivilMonth_new(y, m)                 == from_ymd_hms("Month", y, m, 1, 0, 0, 0)
CivilYear_new(y)                     == from_ymd_hms("Year", y, 1, 1, 0, 0, 0)

\* impl_from!: realignment of the fields of another civil-time value.
\* Mutant: the fields are taken over without realignment.
from_without_align(k, other) == [kind |-> k, f |-> other.f]

from(k, other) == from_fields(k, other.f)

\* ------------------------------------------------------------- comparison
\* The fields of struct Fields in declaration order, as the derived
\* PartialEq / PartialOrd / Ord visit them.
FieldsInOrder(f) == <<f.y, f.m, f.d, f.hh, f.mm, f.ss>>

\* Derived comparison of two sequences of fields: that of the first position
\* at which they differ.
first_difference(s, t) ==
    IF s = t THEN "Equal"
    ELSE Val({ IF s[i] < t[i] THEN "Less" ELSE "Greater"
             : i \in {CHOOSE i \in 1..Len(s) :
                         s[i] # t[i] /\ \A k \in 1..(i - 1) : s[k] = t[k]} })

Fields_eq(f1, f2) == \A i \in 1..6 : FieldsInOrder(f1)[i] = FieldsInOrder(f2)[i]

\* Mutant: the day is compared before the month.
Fields_cmp_day_before_month(f1, f2) ==
    first_difference(<<f1.y, f1.d, f1.m, f1.hh, f1.mm, f1.ss>>,
                     <<f2.y, f2.d, f2.m, f2.hh, f2.mm, f2.ss>>)

Fields_cmp(f1, f2) == first_difference(FieldsInOrder(f1), FieldsInOrder(f2))

\* impl PartialEq<$Other> for $Type, impl PartialOrd<$Other> for $Type.
eq(a, b) == Fields_eq(a.f, b.f)

partial_cmp(a, b) == Fields_cmp(a.f, b.f)

\* ------------------------------------------------------- weekday, yearday
Weekdays == <<"Mon", "Tue", "Wed", "Thu", "Fri", "Sat", "Sun">>
WeekdaySet == {Weekdays[i] : i \in 1..7}

\* The tables of Weekday::from_second, indexed from 1 here and from 0 there.
WEEKDAY_BY_MON_OFF ==
    <<"Mon", "Tue", "Wed", "Thu", "Fri", "Sat", "Sun",
      "Mon", "Tue", "Wed", "Thu", "Fri", "Sat">>

WEEKDAY_OFFSETS == <<-1, 0, 3, 2, 5, 0, 3, 5, 1, 4, 6, 2, 4>>

\* Mutant: the 400-year term of the leap correction is left out.
Weekday_from_second_no_400_rule(cs) ==
    LET wd1 == 2400 + Rem(cs.f.y, 400) - (IF cs.f.m < 3 THEN 1 ELSE 0)
        wd2 == wd1 + Quot(wd1, 4) - Quot(wd1, 100)
        wd3 == wd2 + (WEEKDAY_OFFSETS[cs.f.m + 1] + cs.f.d)
    IN  [v  |-> WEEKDAY_BY_MON_OFF[(Rem(wd3, 7) + 6) + 1],
         ok |-> Fits({wd1, wd2, wd3}),
         index |-> Rem(wd3, 7) + 6, month |-> cs.f.m]

Weekday_from_second(cs) ==
    LET wd1 == 2400 + Rem(cs.f.y, 400) - (IF cs.f.m < 3 THEN 1 ELSE 0)
        wd2 == wd1 + Quot(wd1, 4) - Quot(wd1, 100) + Quot(wd1, 400)
        wd3 == wd2 + (WEEKDAY_OFFSETS[cs.f.m + 1] + cs.f.d)
    IN  [v  |-> WEEKDAY_BY_MON_OFF[(Rem(wd3, 7) + 6) + 1],
         ok |-> Fits({wd1, wd2, wd3}),
         index |-> Rem(wd3, 7) + 6, month |-> cs.f.m]

\* $Type::weekday.
weekday(a) == Weekday_from_second(from_fields("Second", a.f)).v

\* Mutant: the table of next_weekday holds the week once.
WEEKDAYS_FORW_once == <<"Mon", "Tue", "Wed", "Thu", "Fri", "Sat", "Sun">>

WEEKDAYS_FORW ==
    <<"Mon", "Tue", "Wed", "Thu", "Fri", "Sat", "Sun",
      "Mon", "Tue", "Wed", "Thu", "Fri", "Sat", "Sun">>

WEEKDAYS_BACK ==
    <<"Sun", "Sat", "Fri", "Thu", "Wed", "Tue", "Mon",
      "Sun", "Sat", "Fri", "Thu", "Wed", "Tue", "Mon">>

\* The scan loops of next_weekday and prev_weekday,
\* `loop { if wd.equals(TABLE[i]) { .. } i += 1; }`: the first index from i on
\* at which table holds wd, or the index past the end of the table that the
\* loop would read (indices are from 1 here and from 0 in the crate).
RECURSIVE scan(_, _, _)
scan(table, i, wd) ==
    IF i > Len(table) THEN i
    ELSE IF table[i] = wd THEN i
    ELSE scan(table, i + 1, wd)

\* The result of the search: the value, whether every index read was inside
\* the table and the step did not overflow, and the indices i and j of the
\* crate at the return.
found(table, r, i, j) ==
    [v |-> r.v, ok |-> r.ok /\ i <= Len(table) /\ j <= Len(table),
     i |-> i - 1, j |-> j - 1]

\* Mutant: the scan for the target starts at the base itself.
next_weekday_from_base(cd, wd) ==
    Val({ Val({ found(WEEKDAYS_FORW, add_diff(cd, j - i), i, j)
              : j \in {scan(WEEKDAYS_FORW, i, wd)} })
        : i \in {scan(WEEKDAYS_FORW, 1, weekday(cd))} })

next_weekday(cd, wd) ==
    Val({ Val({ found(WEEKDAYS_FORW, add_diff(cd, j - i), i, j)
              : j \in {scan(WEEKDAYS_FORW, i + 1, wd)} })
        : i \in {scan(WEEKDAYS_FORW, 1, weekday(cd))} })

\* Mutant: the scan for the target starts at the base itself.
prev_weekday_from_base(cd, wd) ==
    Val({ Val({ found(WEEKDAYS_BACK, sub_diff(cd, j - i), i, j)
              : j \in {scan(WEEKDAYS_BACK, i, wd)} })
        : i \in {scan(WEEKDAYS_BACK, 1, weekday(cd))} })

prev_weekday(cd, wd) ==
    Val({ Val({ found(WEEKDAYS_BACK, sub_diff(cd, j - i), i, j)
              : j \in {scan(WEEKDAYS_BACK, i + 1, wd)} })
        : i \in {scan(WEEKDAYS_BACK, 1, weekday(cd))} })

\* The types impl_weekday_ops! is invoked for.
WeekdayOpsKinds == {"Second", "Minute", "Hour", "Day"}

MONTH_OFFSETS == <<-1, 0, 31, 59, 90, 120, 151, 181, 212, 243, 273, 304, 334>>

\* Mutant: the leap day is added from February on.
get_yearday_leap_from_february(cs) ==
    MONTH_OFFSETS[cs.f.m + 1]
        + (IF cs.f.m >= 2 /\ is_leap_year(cs.f.y) THEN 1 ELSE 0) + cs.f.d

get_yearday(cs) ==
    MONTH_OFFSETS[cs.f.m + 1]
        + (IF cs.f.m > 2 /\ is_leap_year(cs.f.y) THEN 1 ELSE 0) + cs.f.d

\* $Type::yearday.
yearday(a) == get_yearday(from_fields("Second", a.f))

\* ========================================================= reference calendar
\* The proleptic Gregorian calendar, stepped one unit at a time.  Nothing below
\* is taken from the crate: it is what the crate's results are compared with.
RefLeap(y) == y % 4 = 0 /\ (y % 100 # 0 \/ y % 400 = 0)

RefDaysInMonth(y, m) ==
    CASE m = 2 -> (IF RefLeap(y) THEN 29 ELSE 28)
      [] m \in {4, 6, 9, 11} -> 30
      [] OTHER -> 31

ValidFields(f) ==
    /\ f.m \in 1..12
    /\ f.d \in 1..RefDaysInMonth(f.y, f.m)
    /\ f.hh \in 0..23
    /\ f.mm \in 0..59
    /\ f.ss \in 0..59

\* The fields inferior to alignment k are at their minimum.
AlignedTo(k, f) ==
    /\ k \in {"Minute", "Hour", "Day", "Month", "Year"} => f.ss = 0
    /\ k \in {"Hour", "Day", "Month", "Year"} => f.mm = 0
    /\ k \in {"Day", "Month", "Year"} => f.hh = 0
    /\ k \in {"Month", "Year"} => f.d = 1
    /\ k = "Year" => f.m = 1

RefNextDay(f) ==
    IF f.d < RefDaysInMonth(f.y, f.m) THEN [f EXCEPT !.d = f.d + 1]
    ELSE IF f.m < 12 THEN [f EXCEPT !.m = f.m + 1, !.d = 1]
    ELSE [f EXCEPT !.y = f.y + 1, !.m = 1, !.d = 1]

RefPrevDay(f) ==
    IF f.d > 1 THEN [f EXCEPT !.d = f.d - 1]
    ELSE IF f.m > 1
         THEN [f EXCEPT !.m = f.m - 1, !.d = RefDaysInMonth(f.y, f.m - 1)]
    ELSE [f EXCEPT !.y = f.y - 1, !.m = 12, !.d = 31]

RefNextHour(f) ==
    IF f.hh < 23 THEN [f EXCEPT !.hh = f.hh + 1]
    ELSE RefNextDay([f EXCEPT !.hh = 0])

RefPrevHour(f) ==
    IF f.hh > 0 THEN [f EXCEPT !.hh = f.hh - 1]
    ELSE RefPrevDay([f EXCEPT !.hh = 23])

RefNextMinute(f) ==
    IF f.mm < 59 THEN [f EXCEPT !.mm = f.mm + 1]
    ELSE RefNextHour([f EXCEPT !.mm = 0])

RefPrevMinute(f) ==
    IF f.mm > 0 THEN [f EXCEPT !.mm = f.mm - 1]
    ELSE RefPrevHour([f EXCEPT !.mm = 59])

RefNextSecond(f) ==
    IF f.ss < 59 THEN [f EXCEPT !.ss = f.ss + 1]
    ELSE RefNextMinute([f EXCEPT !.ss = 0])

RefPrevSecond(f) ==
    IF f.ss > 0 THEN [f EXCEPT !.ss = f.ss - 1]
    ELSE RefPrevMinute([f EXCEPT !.ss = 59])

RefNextMonth(f) ==
    IF f.m < 12 THEN [f EXCEPT !.m = f.m + 1]
    ELSE [f EXCEPT !.y = f.y + 1, !.m = 1]

RefPrevMonth(f) ==
    IF f.m > 1 THEN [f EXCEPT !.m = f.m - 1]
    ELSE [f EXCEPT !.y = f.y - 1, !.m = 12]

\* One unit forwards (dir = 1) or backwards (dir = -1).
RefStep(k, f, dir) ==
    CASE k = "Second" -> IF dir > 0 THEN RefNextSecond(f) ELSE RefPrevSecond(f)
      [] k = "Minute" -> IF dir > 0 THEN RefNextMinute(f) ELSE RefPrevMinute(f)
      [] k = "Hour"   -> IF dir > 0 THEN RefNextHour(f) ELSE RefPrevHour(f)
      [] k = "Day"    -> IF dir > 0 THEN RefNextDay(f) ELSE RefPrevDay(f)
      [] k = "Month"  -> IF dir > 0 THEN RefNextMonth(f) ELSE RefPrevMonth(f)
      [] k = "Year"   -> [f EXCEPT !.y = f.y + dir]

\* n units, one at a time (the walk is split in halves to keep the nesting of
\* the evaluation logarithmic in n; every unit is still a single RefStep).
RECURSIVE RefAdvance(_, _, _)
RefAdvance(k, f_, n_) ==
    Val({ IF n = 0 THEN f
          ELSE IF n = 1 \/ n = -1 THEN RefStep(k, f, n)
          ELSE RefAdvance(k, RefAdvance(k, f, Quot(n, 2)), n - Quot(n, 2))
        : f \in {f_}, n \in {n_} })

\* The same date and time one year later (dir = 1) or earlier (dir = -1),
\* reached one unit at a time, and the signed number of units it took.
RefYearStride(k, f_, dir) ==
    Val({ IF k = "Month"
          THEN [f |-> RefAdvance(k, f, 12 * dir), n |-> 12 * dir]
          ELSE Val({ IF g.m = f.m /\ g.d = f.d
                     THEN [f |-> g, n |-> 365 * dir]
                     ELSE [f |-> RefStep(k, g, dir), n |-> 366 * dir]
                   : g \in {RefAdvance(k, f, 365 * dir)} })
        : f \in {f_} })

\* Number of leap years in 1 .. y-1, continued to y <= 0 by floor division.
RefLeapsBefore(y) == ((y - 1) \div 4) - ((y - 1) \div 100) + ((y - 1) \div 400)

\* Number of days of year y before month m.
RefDaysBeforeMonth(y, m) ==
    LET S[k \in 0..12] == IF k = 0 THEN 0 ELSE S[k - 1] + RefDaysInMonth(y, k)
    IN  S[m - 1]

\* Day number of a date, 1 for 0001-01-01 (an unbounded integer, not a scalar
\* of the crate).
RefOrdinal(f) ==
    365 * (f.y - 1) + RefLeapsBefore(f.y) + RefDaysBeforeMonth(f.y, f.m) + f.d

\* The date with day number n: January 1 of a year near it, then single-day
\* steps.
RefDate(n_) ==
    Val({ Val({ RefAdvance("Day", j, n - RefOrdinal(j))
              : j \in {MkFields(1 + (n \div 146097) * 400
                                  + (((n % 146097) * 400) \div 146097),
                                1, 1, 0, 0, 0)} })
        : n \in {n_} })

\* The month brought into 1..12, day 1 at 00:00:00 of that month, then d-1
\* days, hh hours, mm minutes and ss seconds, one unit at a time.
RefNew(y, m, d, hh, mm, ss) ==
    RefAdvance("Second",
        RefAdvance("Minute",
            RefAdvance("Hour",
                RefAdvance("Day",
                    MkFields(y + ((m - 1) \div 12), ((m - 1) % 12) + 1, 1, 0, 0, 0),
                    d - 1),
                hh),
            mm),
        ss)

\* ============================================================== state machine
VARIABLES
    pc,     \* "start", "value", "panic" (an operation overflowed), "input", "done"
    cur,    \* the current civil-time value [kind, f]
    prev,   \* the value the last operation was applied to / the other operand
    op,     \* the last operation: "none", "new", "add", "sub", "from", ...
    arg,    \* the arguments of the last operation
    path,   \* the branch of n_sec the last construction returned through
    nops,   \* number of operations applied since construction
    cnt,    \* signed number of unit steps the reference calendar has walked
    res     \* the results of the queries made on cur: `cur - prev` and
            \* `prev - cur`, or weekday(), yearday(), next_weekday(), prev_weekday()

vars == <<pc, cur, prev, op, arg, path, nops, cnt, res>>

NoValue == [kind |-> "None", f |-> MkFields(1970, 1, 1, 0, 0, 0)]
NoRes   == [ab |-> [v |-> 0, ok |-> TRUE], ba |-> [v |-> 0, ok |-> TRUE]]
NoArg   == [y |-> 0, m |-> 0, d |-> 0, hh |-> 0, mm |-> 0, ss |-> 0, n |-> 0]
MkArg(y, m, d, hh, mm, ss) ==
    [y |-> y, m |-> m, d |-> d, hh |-> hh, mm |-> mm, ss |-> ss, n |-> 0]

\* ------------------------------------------ life of one civil-time value
\* Arguments the constructors are called with.
LifeYears   == {-401, 1998}
LifeMonths  == {0, 14}
LifeDays    == {0, 29}
LifeHours   == {-1}
LifeMinutes == {60}
LifeSeconds == {-1, 59}
\* Operands of + and -.
LifeDiffs   == {DiffMin, -1, 0, 1, DiffMax}

Init ==
    /\ pc = "start"
    /\ cur = NoValue
    /\ prev = NoValue
    /\ op = "none"
    /\ arg = NoArg
    /\ path = "none"
    /\ nops = 0
    /\ cnt = 0
    /\ res = NoRes

\* `let cur = T::new(...)`: r is the result of from_ymd_hms.
Construct(r_, a) ==
    /\ pc = "start"
    /\ \E r \in {r_} :
        /\ pc' = IF r.ok THEN "value" ELSE "panic"
        /\ cur' = IF r.ok THEN r.v ELSE cur
        /\ path' = r.path
    /\ prev' = cur
    /\ op' = "new"
    /\ arg' = a
    /\ UNCHANGED <<nops, cnt, res>>

NewSecond ==
    \E y \in LifeYears, m \in LifeMonths, d \in LifeDays,
       hh \in LifeHours, mm \in LifeMinutes, ss \in LifeSeconds :
        Construct(CivilSecond_new(y, m, d, hh, mm, ss), MkArg(y, m, d, hh, mm, ss))

NewMinute ==
    \E y \in LifeYears, m \in LifeMonths, d \in LifeDays,
       hh \in LifeHours, mm \in LifeMinutes :
        Construct(CivilMinute_new(y, m, d, hh, mm), MkArg(y, m, d, hh, mm, 0))

NewHour ==
    \E y \in LifeYears, m \in LifeMonths, d \in LifeDays, hh \in LifeHours :
        Construct(CivilHour_new(y, m, d, hh), MkArg(y, m, d, hh, 0, 0))

NewDay ==
    \E y \in LifeYears, m \in LifeMonths, d \in LifeDays :
        Construct(CivilDay_new(y, m, d), MkArg(y, m, d, 0, 0, 0))

NewMonth ==
    \E y \in LifeYears, m \in LifeMonths :
        Construct(CivilMonth_new(y, m), MkArg(y, m, 1, 0, 0, 0))

NewYear ==
    \E y \in LifeYears :
        Construct(CivilYear_new(y), MkArg(y, 1, 1, 0, 0, 0))

\* `cur = cur + n` / `cur = cur - n`: r is the result of add_diff / sub_diff.
Arith(name, r_, n) ==
    /\ pc = "value"
    /\ nops < MaxOps
    /\ \E r \in {r_} :
        /\ pc' = IF r.ok THEN "value" ELSE "panic"
        /\ cur' = IF r.ok THEN r.v ELSE cur
    /\ prev' = cur
    /\ op' = name
    /\ arg' = [NoArg EXCEPT !.n = n]
    /\ nops' = nops + 1
    /\ UNCHANGED <<path, cnt, res>>

Add == \E n \in LifeDiffs : Arith("add", add_diff(cur, n), n)

Sub == \E n \in LifeDiffs : Arith("sub", sub_diff(cur, n), n)

\* `cur = T::from(cur)` for a type T of another alignment.
From ==
    \E k \in KindSet \ {cur.kind} :
        /\ pc = "value"
        /\ nops < MaxOps
        /\ cur' = from(k, cur)
        /\ prev' = cur
        /\ op' = "from"
        /\ arg' = NoArg
        /\ nops' = nops + 1
        /\ UNCHANGED <<pc, path, cnt, res>>

Next ==
    \/ NewSecond \/ NewMinute \/ NewHour \/ NewDay \/ NewMonth \/ NewYear
    \/ Add \/ Sub \/ From

Spec == Init /\ [][Next]_vars


\* --------------------------------- normalisation of one tuple of arguments
\* Canonical tuples: every month, the last days of the month where valid.
NewCanonical ==
    { MkArg(y, m, d, hh, mm, ss) :
        y \in {1900, 1999, 2000}, m \in 1..12, d \in {1, 27, 28, 29, 30, 31},
        hh \in {0, 23}, mm \in {0, 59}, ss \in {0, 59} }
    \cap { a \in [y : Int, m : 1..12, d : 1..31, hh : 0..23, mm : 0..59,
                  ss : 0..59, n : {0}] : a.d <= RefDaysInMonth(a.y, a.m) }

\* Out-of-range and negative magnitudes in every position.
NewOutOfRange ==
    { MkArg(y, m, d, hh, mm, ss) :
        y \in {-401, 1999}, m \in {-12, 0, 2, 13},
        d \in {-MaxWalk, -365, -364, -1, 0, 1, 29, 32, 60, 365, 366, 367, MaxWalk},
        hh \in {-25, 0, 24}, mm \in {-61, 0, 60}, ss \in {-121, -1, 60} }

\* Every month magnitude around zero, with the other fields canonical.
NewMonthSweep ==
    { MkArg(y, m, d, t[1], t[2], t[3]) :
        y \in {0, 1999}, m \in -25..25, d \in {1, 28},
        t \in {<<0, 0, 0>>, <<23, 59, 59>>} }

\* Every second magnitude around zero, with the other fields canonical.
NewSecondSweep ==
    { MkArg(2016, 1, 28, 17, mm, ss) : mm \in {0, 14, 59}, ss \in -130..130 }

NewArgs == NewCanonical \cup NewOutOfRange \cup NewMonthSweep \cup NewSecondSweep

InitNew ==
    /\ pc = "input"
    /\ arg \in NewArgs
    /\ cur = NoValue
    /\ prev = NoValue
    /\ op = "none"
    /\ path = "none"
    /\ nops = 0
    /\ cnt = 0
    /\ res = NoRes

\* `let cur = CivilSecond::new(y, m, d, hh, mm, ss)`.
Normalize ==
    /\ pc = "input"
    /\ \E r \in {CivilSecond_new(arg.y, arg.m, arg.d, arg.hh, arg.mm, arg.ss)} :
        /\ pc' = IF r.ok THEN "value" ELSE "panic"
        /\ cur' = IF r.ok THEN r.v ELSE cur
        /\ path' = r.path
    /\ op' = "new"
    /\ UNCHANGED <<prev, arg, nops, cnt, res>>

NextNew == Normalize

SpecNew == InitNew /\ [][NextNew]_vars


\* ------------------------- differences along a walk of the reference calendar
\* Dates and times the walks start from: either side of the 400-year blocks
\* day_difference reduces the years to, a leap day, a century that is not a
\* leap year, the year 0 and the epoch.
DiffBases ==
    { MkFields(399, 12, 31, 23, 59, 30),
      MkFields(-399, 1, 1, 0, 0, 30),
      MkFields(2000, 2, 28, 23, 59, 50),
      MkFields(1900, 2, 28, 12, 0, 0),
      MkFields(-1, 12, 31, 23, 59, 59),
      MkFields(1970, 1, 1, 0, 0, 0) }

\* `let ab = a - b; let ba = b - a;`
Differences(a, b) == [ab |-> difference(a, b), ba |-> difference(b, a)]

InitDiff ==
    /\ pc = "input"
    /\ \E k \in KindSet, f \in DiffBases :
        /\ cur = from_fields(k, f)
        /\ prev = from_fields(k, f)
    /\ op = "none"
    /\ arg = NoArg
    /\ path = "none"
    /\ nops = 0
    /\ cnt = 0
    /\ res = NoRes

\* a and b are the same value.
Start ==
    /\ pc = "input"
    /\ pc' = "walk"
    /\ op' = "start"
    /\ res' = Differences(cur, prev)
    /\ UNCHANGED <<cur, prev, arg, path, nops, cnt>>

\* a moves one unit away from b.
Walk(dir) ==
    /\ pc = "walk"
    /\ op \in {"start", "unit"}
    /\ cnt * dir >= 0
    /\ cnt * dir < MaxWalk
    /\ \E a \in {[cur EXCEPT !.f = RefStep(cur.kind, cur.f, dir)]} :
        /\ cur' = a
        /\ res' = Differences(a, prev)
    /\ op' = "unit"
    /\ cnt' = cnt + dir
    /\ UNCHANGED <<pc, prev, arg, path, nops>>

WalkForward == Walk(1)

WalkBackward == Walk(-1)

\* a moves one year away from b, for the alignments whose differences stay
\* representable over MaxYears years.
Stride(dir) ==
    /\ pc = "walk"
    /\ op \in {"start", "stride"}
    /\ cur.kind \in {"Day", "Month"}
    /\ cnt * dir >= 0
    /\ nops < MaxYears
    /\ \E s \in {RefYearStride(cur.kind, cur.f, dir)} :
        /\ \E a \in {[cur EXCEPT !.f = s.f]} :
            /\ cur' = a
            /\ res' = Differences(a, prev)
        /\ cnt' = cnt + s.n
    /\ op' = "stride"
    /\ nops' = nops + 1
    /\ UNCHANGED <<pc, prev, arg, path>>

StrideForward == Stride(1)

StrideBackward == Stride(-1)

NextDiff == Start \/ WalkForward \/ WalkBackward \/ StrideForward \/ StrideBackward

SpecDiff == InitDiff /\ [][NextDiff]_vars


\* ------------------------------------ day differences at the ends of the range
\* Dates a: the last and first years of the year range and years whose
\* offsets in the 400-year cycle differ, either side of year 0.
SpanYears ==
    {DiffMax - 100 * k : k \in 0..3} \cup {DiffMin + 100 * k : k \in 0..3}
    \cup {-1, 0, 399}

SpanDates ==
    { MkFields(y, md[1], md[2], 0, 0, 0) :
        y \in SpanYears, md \in {<<1, 1>>, <<2, 28>>, <<6, 6>>, <<12, 31>>} }

\* True differences a - b: the scalar limits, one past them, and small ones.
SpanDistances ==
    {DiffMax + 1, DiffMax, DiffMax - 1, 146097, 364, 1, 0, -1, -365, -146097,
     DiffMin + 1, DiffMin, DiffMin - 1}

InitSpan ==
    /\ pc = "input"
    /\ \E f \in SpanDates, n \in SpanDistances :
        /\ cur = from_fields("Day", f)
        /\ \E g \in {RefDate(RefOrdinal(f) - n)} :
            /\ Fits({g.y})
            /\ prev = from_fields("Day", g)
        /\ cnt = n
    /\ op = "none"
    /\ arg = NoArg
    /\ path = "none"
    /\ nops = 0
    /\ res = NoRes

\* `let ab = a - b; let ba = b - a;`
Subtract ==
    /\ pc = "input"
    /\ pc' = "done"
    /\ op' = "difference"
    /\ res' = Differences(cur, prev)
    /\ UNCHANGED <<cur, prev, arg, path, nops, cnt>>

NextSpan == Subtract

SpecSpan == InitSpan /\ [][NextSpan]_vars


\* ------------------------------------------- weekday and yearday of a value
\* `a.next_weekday(wd)` / `a.prev_weekday(wd)`: the methods exist for the types
\* of WeekdayOpsKinds only (impl is FALSE where the type has no such method).
method_next_weekday(a, wd) ==
    IF a.kind \in WeekdayOpsKinds
    THEN Val({ [v |-> r.v, ok |-> r.ok, impl |-> TRUE, i |-> r.i, j |-> r.j]
             : r \in {next_weekday(from_fields("Day", a.f), wd)} })
    ELSE [v |-> NoValue, ok |-> FALSE, impl |-> FALSE, i |-> 0, j |-> 0]

method_prev_weekday(a, wd) ==
    IF a.kind \in WeekdayOpsKinds
    THEN Val({ [v |-> r.v, ok |-> r.ok, impl |-> TRUE, i |-> r.i, j |-> r.j]
             : r \in {prev_weekday(from_fields("Day", a.f), wd)} })
    ELSE [v |-> NoValue, ok |-> FALSE, impl |-> FALSE, i |-> 0, j |-> 0]

\* `a.weekday()`, `a.yearday()`, and `a.next_weekday(wd)`, `a.prev_weekday(wd)`
\* for each of the seven weekdays.
Queries(a_) ==
    Val({ [wd   |-> weekday(a),
           yd   |-> yearday(a),
           next |-> [w \in WeekdaySet |-> method_next_weekday(a, w)],
           prev |-> [w \in WeekdaySet |-> method_prev_weekday(a, w)]]
        : a \in {a_} })

\* Where the walks start: the eve of the epoch, the days before the leap day
\* of a century that is and of one that is not a leap year, either side of
\* the 400-year blocks, of year 0 and late in the year range; the dates of the
\* crate's examples.
WeekBases ==
    { MkArg(1969, 12, 31, 23, 59, 50),
      MkArg(2000, 2, 27, 23, 59, 50),
      MkArg(1900, 2, 27, 23, 59, 50),
      MkArg(399, 12, 30, 23, 59, 50),
      MkArg(-400, 12, 30, 23, 59, 50),
      MkArg(-1, 12, 30, 23, 59, 50),
      MkArg(2015, 8, 12, 23, 59, 50),
      MkArg(2014, 10, 31, 23, 59, 50),
      MkArg(DiffMax - MaxWalk - 2, 2, 27, 23, 59, 50) }

InitWeek ==
    /\ pc = "start"
    /\ cur = NoValue
    /\ prev = NoValue
    /\ op = "none"
    /\ arg = NoArg
    /\ path = "none"
    /\ nops = 0
    /\ cnt = 0
    /\ res = NoRes

\* `let cur = T::new(...)`, then the queries on cur.
NewWeek ==
    /\ pc = "start"
    /\ \E k \in KindSet, b \in WeekBases :
        \E r \in {from_ymd_hms(k, b.y, b.m, b.d, b.hh, b.mm, b.ss)} :
            /\ pc' = IF r.ok THEN "value" ELSE "panic"
            /\ cur' = IF r.ok THEN r.v ELSE cur
            /\ res' = IF r.ok THEN Queries(r.v) ELSE res
            /\ path' = r.path
            /\ arg' = b
    /\ prev' = cur
    /\ op' = "new"
    /\ UNCHANGED <<nops, cnt>>

\* `cur += 1`, then the queries on cur.
StepWeek ==
    /\ pc = "value"
    /\ nops < MaxWalk
    /\ \E r \in {add_diff(cur, 1)} :
        /\ pc' = IF r.ok THEN "value" ELSE "panic"
        /\ cur' = IF r.ok THEN r.v ELSE cur
        /\ res' = IF r.ok THEN Queries(r.v) ELSE res
    /\ prev' = cur
    /\ op' = "add"
    /\ arg' = [NoArg EXCEPT !.n = 1]
    /\ nops' = nops + 1
    /\ UNCHANGED <<path, cnt>>

NextWeek == NewWeek \/ StepWeek

SpecWeek == InitWeek /\ [][NextWeek]_vars


\* ------------------------------------------------- comparison of two values
\* Field tuples that differ from the first in one field each, with the lower
\* fields ordered the other way, and tuples at the minimum of the lower fields.
CmpFields ==
    { MkFields(2015, 6, 15, 12, 30, 30),
      MkFields(2014, 12, 31, 23, 59, 59),
      MkFields(2015, 5, 31, 23, 59, 59),
      MkFields(2015, 6, 14, 23, 59, 59),
      MkFields(2015, 6, 15, 11, 59, 59),
      MkFields(2015, 6, 15, 12, 29, 59),
      MkFields(2015, 6, 15, 12, 30, 29),
      MkFields(2015, 1, 1, 0, 0, 0),
      MkFields(2015, 6, 1, 0, 0, 0),
      MkFields(-1, 12, 31, 23, 59, 59) }

CmpValues == { from_fields(k, f) : k \in KindSet, f \in CmpFields }

InitCmp ==
    /\ pc = "input"
    /\ cur \in CmpValues
    /\ prev \in CmpValues
    /\ op = "none"
    /\ arg = NoArg
    /\ path = "none"
    /\ nops = 0
    /\ cnt = 0
    /\ res = NoRes

\* `a == b`, `a.partial_cmp(&b)`, `b.partial_cmp(&a)`.
Compare ==
    /\ pc = "input"
    /\ pc' = "done"
    /\ op' = "compare"
    /\ res' = [eq |-> eq(cur, prev), cmp |-> partial_cmp(cur, prev),
               rev |-> partial_cmp(prev, cur)]
    /\ UNCHANGED <<cur, prev, arg, path, nops, cnt>>

NextCmp == Compare

SpecCmp == InitCmp /\ [][NextCmp]_vars


\* ------------------------------------------------ the leap day, year by year
\* Years around the century years, the 400-year years, year 0 and the first
\* years of the range.
LeapTestYears ==
    UNION { (c - 4)..(c + 5) : c \in {1900, 2000, 2100, 400, -400, 0} }
    \cup {DiffMin, DiffMin + 1, DiffMax - 1}

InitLeap ==
    /\ pc = "input"
    /\ \E y \in LeapTestYears : arg = MkArg(y, 2, 28, 0, 0, 0)
    /\ cur = NoValue
    /\ prev = NoValue
    /\ op = "none"
    /\ path = "none"
    /\ nops = 0
    /\ cnt = 0
    /\ res = NoRes

\* `let feb28 = CivilDay::new(y, 2, 28); let next_day = feb28 + 1;`
NextDay ==
    /\ pc = "input"
    /\ \E c \in {CivilDay_new(arg.y, arg.m, arg.d)} :
        \E r \in {add_diff(c.v, 1)} :
            /\ pc' = IF c.ok /\ r.ok THEN "value" ELSE "panic"
            /\ prev' = c.v
            /\ cur' = r.v
            /\ path' = c.path
    /\ op' = "add"
    /\ UNCHANGED <<arg, nops, cnt, res>>

\* `let year = CivilYear::from(feb28); let next_year = year + 1;
\*  CivilDay::from(next_year) - CivilDay::from(year)`
YearLength ==
    /\ pc = "value"
    /\ \E year \in {from("Year", prev)} :
        \E next_year \in {add_diff(year, 1)} :
            \E r \in {difference(from("Day", next_year.v), from("Day", year))} :
                /\ pc' = IF next_year.ok /\ r.ok THEN "done" ELSE "panic"
                /\ res' = [NoRes EXCEPT !.ab = [v |-> r.v, ok |-> r.ok]]
    /\ op' = "difference"
    /\ UNCHANGED <<cur, prev, arg, path, nops, cnt>>

NextLeap == NextDay \/ YearLength

SpecLeap == InitLeap /\ [][NextLeap]_vars


\* ------------------------------------------- the ends of the range of years
\* T::new(..) for the type T of alignment k, from the leading arguments of a.
T_new(k, a) ==
    CASE k = "Second" -> CivilSecond_new(a.y, a.m, a.d, a.hh, a.mm, a.ss)
      [] k = "Minute" -> CivilMinute_new(a.y, a.m, a.d, a.hh, a.mm)
      [] k = "Hour"   -> CivilHour_new(a.y, a.m, a.d, a.hh)
      [] k = "Day"    -> CivilDay_new(a.y, a.m, a.d)
      [] k = "Month"  -> CivilMonth_new(a.y, a.m)
      [] k = "Year"   -> CivilYear_new(a.y)

\* The six arguments T::new passes to from_ymd_hms: the omitted ones are the
\* minimum of their field.
LeadingArgs(k, a) ==
    MkArg(a.y,
          IF k = "Year" THEN 1 ELSE a.m,
          IF k \in {"Year", "Month"} THEN 1 ELSE a.d,
          IF k \in {"Year", "Month", "Day"} THEN 0 ELSE a.hh,
          IF k \in {"Second", "Minute"} THEN a.mm ELSE 0,
          IF k = "Second" THEN a.ss ELSE 0)

\* Arguments in the first and last two years, with a month, day, hour or
\* second one unit or one year outside its range.
EdgeArgs ==
    { MkArg(y, m, d, hh, 0, ss) :
        y \in {DiffMin, DiffMin + 1, DiffMax - 1, DiffMax},
        m \in {0, 1, 12, 13, 24}, d \in {0, 1, 32},
        hh \in {-1, 0, 24}, ss \in {-1, 0} }

\* Operands of + and -: the scalar limits for the alignments whose unit is a
\* day or longer, a few units otherwise.
EdgeDiffs(k) ==
    {-25, -1, 1, 25}
        \cup (IF k \in {"Year", "Month", "Day"} THEN {DiffMin, DiffMax} ELSE {})

InitEdge ==
    /\ pc = "start"
    /\ cur = NoValue
    /\ prev = NoValue
    /\ op = "none"
    /\ arg = NoArg
    /\ path = "none"
    /\ nops = 0
    /\ cnt = 0
    /\ res = NoRes

\* `let cur = T::new(...)`
NewEdge ==
    /\ pc = "start"
    /\ \E k \in KindSet, a \in EdgeArgs :
        \E r \in {T_new(k, a)} :
            /\ pc' = IF r.ok THEN "value" ELSE "panic"
            /\ cur' = IF r.ok THEN r.v ELSE cur
            /\ path' = r.path
            /\ arg' = LeadingArgs(k, a)
    /\ prev' = cur
    /\ op' = "new"
    /\ UNCHANGED <<nops, cnt, res>>

\* `cur + n` and `cur - n`, once.
ArithEdge(name, r_, n) ==
    /\ pc = "value"
    /\ nops < 1
    /\ \E r \in {r_} :
        /\ pc' = IF r.ok THEN "value" ELSE "panic"
        /\ cur' = IF r.ok THEN r.v ELSE cur
    /\ prev' = cur
    /\ op' = name
    /\ arg' = [NoArg EXCEPT !.n = n]
    /\ nops' = nops + 1
    /\ UNCHANGED <<path, cnt, res>>

AddEdge == \E n \in EdgeDiffs(cur.kind) : ArithEdge("add", add_diff(cur, n), n)

SubEdge == \E n \in EdgeDiffs(cur.kind) : ArithEdge("sub", sub_diff(cur, n), n)

NextEdge == NewEdge \/ AddEdge \/ SubEdge

SpecEdge == InitEdge /\ [][NextEdge]_vars


\* ------------------------------------- differences at the limits of the scalar
\* Factors of the four scaled differences.
ScaleFactors == {12, 24, 60}

\* Coarser differences at and around the two limits divided by f, and around
\* zero.
ScaleValues(f) ==
    { Quot(DiffMin, f) + i : i \in -1..1 } \cup { Quot(DiffMax, f) + i : i \in -1..1 }
        \cup (-2..2)

\* Operands of the shifted differences.
LimitBases ==
    { MkFields(y, m, d, hh, mm, ss) :
        y \in {1970, -1}, m \in {1, 7, 12}, d \in {1, 27},
        hh \in {0, 8, 23}, mm \in {0, 29, 59}, ss \in {0, 7, 52, 59} }

LimitKinds == {"Second", "Minute", "Hour", "Month"}

InitScale ==
    /\ pc = "input"
    /\ \/ /\ path = "scale_add"
          /\ \E f \in ScaleFactors :
              \E v \in ScaleValues(f), a \in (1 - f)..(f - 1) :
                  arg = [v |-> v, f |-> f, a |-> a]
          /\ cur = NoValue
       \/ /\ path = "difference"
          /\ \E n \in {DiffMin, DiffMax} : arg = [NoArg EXCEPT !.n = n]
          /\ \E k \in LimitKinds, f \in LimitBases : cur = from_fields(k, f)
    /\ prev = NoValue
    /\ op = "none"
    /\ nops = 0
    /\ cnt = 0
    /\ res = NoRes

\* `scale_add(v, f, a)`
ScaleAdd ==
    /\ pc = "input" /\ path = "scale_add"
    /\ pc' = "done"
    /\ op' = "scale_add"
    /\ res' = [NoRes EXCEPT !.ab = scale_add(arg.v, arg.f, arg.a)]
    /\ UNCHANGED <<cur, prev, arg, path, nops, cnt>>

\* `let a = b + n;` for n the scalar minimum or maximum.
LimitShift ==
    /\ pc = "input" /\ path = "difference"
    /\ \E r \in {add_diff(cur, arg.n)} :
        /\ pc' = IF r.ok THEN "value" ELSE "panic"
        /\ cur' = IF r.ok THEN r.v ELSE cur
    /\ prev' = cur
    /\ op' = "add"
    /\ UNCHANGED <<arg, path, nops, cnt, res>>

\* `let ab = a - b; let ba = b - a;`
LimitDifference ==
    /\ pc = "value" /\ path = "difference"
    /\ pc' = "done"
    /\ op' = "difference"
    /\ res' = Differences(cur, prev)
    /\ UNCHANGED <<cur, prev, arg, path, nops, cnt>>

NextScale == ScaleAdd \/ LimitShift \/ LimitDifference

SpecScale == InitScale /\ [][NextScale]_vars


\* --------------------------------------------- n_day against a walk by months
\* Anchor months (y, m): before and after February, in a year that follows
\* and in one that precedes a leap day, in a negative year.
DayAnchors ==
    { MkFields(2000, 1, 1, 0, 0, 0),
      MkFields(1900, 3, 1, 0, 0, 0),
      MkFields(399, 2, 1, 0, 0, 0),
      MkFields(1970, 7, 1, 0, 0, 0),
      MkFields(-1, 12, 1, 0, 0, 0) }

\* The number of days of the n months that start with the month of f.
RECURSIVE RefDaysOfMonths(_, _)
RefDaysOfMonths(f, n) ==
    IF n = 0 THEN 0
    ELSE RefDaysInMonth(f.y, f.m) + RefDaysOfMonths(RefNextMonth(f), n - 1)

\* Days after the first of the month the walk has reached.
DayOffsets == {0, 27, 28, 30}

\* The ways a count of t days from day 0 of the anchor month is passed to
\* n_day as (d, cd), with 1 + j of the days in d.
DaySplits(t, j) ==
    << [d |-> 1 + j, cd |-> t - (1 + j)],
       [d |-> t, cd |-> 0],
       [d |-> 1 + j + 2 * 146097 + 5, cd |-> t - (1 + j) - 2 * 146097 - 5],
       [d |-> 1 + j - 400, cd |-> t - (1 + j) + 400] >>

\* n_day of the anchor month for each day offset and each split, when the walk
\* is off days from the first of the anchor month.
DayCases(a, off_) ==
    Val({ [j \in DayOffsets |->
              [i \in 1..4 |->
                  n_day(a.y, a.m, DaySplits(off + 1 + j, j)[i].d,
                        DaySplits(off + 1 + j, j)[i].cd, 0, 0, 0)]]
        : off \in {off_} })

InitDays ==
    /\ pc = "walk"
    /\ \E a \in DayAnchors :
        /\ cur = from_fields("Day", a)
        /\ prev = from_fields("Day", a)
        /\ res = DayCases(a, 0)
    /\ op = "none"
    /\ arg = NoArg
    /\ path = "none"
    /\ nops = 0
    /\ cnt = 0

\* The reference calendar moves by months months (one at a time) to the first
\* of a later (dir = 1) or earlier (dir = -1) month.
MonthWalk(name, months, dir, limit) ==
    /\ pc = "walk"
    /\ op \in {"none", name}
    /\ cnt * dir >= 0
    /\ nops < limit
    /\ \E g \in {RefAdvance("Month", cur.f, months * dir)} :
        \E n \in {IF dir > 0 THEN RefDaysOfMonths(cur.f, months)
                  ELSE -RefDaysOfMonths(g, months)} :
            /\ cur' = [cur EXCEPT !.f = g]
            /\ cnt' = cnt + n
            /\ res' = DayCases(prev.f, cnt + n)
    /\ op' = name
    /\ nops' = nops + 1
    /\ UNCHANGED <<pc, prev, arg, path>>

MonthForward == MonthWalk("month", 1, 1, MaxMonths)

MonthBackward == MonthWalk("month", 1, -1, MaxMonths)

\* Twelve months at a time, past two 400-year cycles.
YearForward == MonthWalk("year", 12, 1, MaxYears)

YearBackward == MonthWalk("year", 12, -1, MaxYears)

NextDays == MonthForward \/ MonthBackward \/ YearForward \/ YearBackward

SpecDays == InitDays /\ [][NextDays]_vars


\* ------------------------------------------------------- sequences of steps
\* Operands of + and -: a few units, more than a year of days, and the scalar
\* limits.
StepDiffs == {DiffMin, -366, -25, -1, 0, 1, 25, 366, DiffMax}

\* cur is a after the steps taken so far, prev is a, cnt the sum of the steps.
InitSteps ==
    /\ pc = "value"
    /\ \E k \in KindSet, f \in DiffBases :
        /\ cur = from_fields(k, f)
        /\ prev = from_fields(k, f)
    /\ op = "none"
    /\ arg = NoArg
    /\ path = "none"
    /\ nops = 0
    /\ cnt = 0
    /\ res = NoRes

\* `cur += n` (sign = 1) and `cur -= n` (sign = -1).
StepBy(name, r_, n, sign) ==
    /\ pc = "value"
    /\ nops < MaxOps
    /\ \E r \in {r_} :
        /\ pc' = IF r.ok THEN "value" ELSE "panic"
        /\ cur' = IF r.ok THEN r.v ELSE cur
    /\ op' = name
    /\ arg' = [NoArg EXCEPT !.n = n]
    /\ nops' = nops + 1
    /\ cnt' = cnt + sign * n
    /\ UNCHANGED <<prev, path, res>>

StepAdd == \E n \in StepDiffs : StepBy("add", add_diff(cur, n), n, 1)

StepSub == \E n \in StepDiffs : StepBy("sub", sub_diff(cur, n), n, -1)

NextSteps == StepAdd \/ StepSub

SpecSteps == InitSteps /\ [][NextSteps]_vars

\* ------------------------------------------------ casts and table indices
\* Constructor arguments far outside the canonical ranges, down to the ends of
\* the integer range (test_new_limits, test_normalized): every step of the
\* cascade n_sec -> n_min -> n_hour -> n_mon -> n_day carries, the day count
\* runs the 146097-day reductions and the chunk loops.
CastYears == {-401, 1999, 2000}
CastMonths == {DiffMin, -25, 0, 12, 14}
CastDays == {DiffMin, -146462, -366, 0, 31, 146098}
CastHours == {DiffMin, -25, 23, DiffMax}
CastMinutes == {DiffMin, -61, 59, DiffMax}
CastSeconds == {DiffMin, -1, 60, DiffMax}
CastKinds == {"Second", "Day"}

CastArgs ==
    {MkArg(y, m, d, hh, mm, ss) :
        y \in CastYears, m \in CastMonths, d \in CastDays,
        hh \in CastHours, mm \in CastMinutes, ss \in CastSeconds}

NoLookup == [v |-> "Mon", ok |-> TRUE, index |-> 6, month |-> 1]

InitCasts ==
    /\ pc = "input"
    /\ arg \in CastArgs
    /\ \E k \in CastKinds :
        /\ cur = [kind |-> k, f |-> NoValue.f]
        /\ prev = [kind |-> k, f |-> NoValue.f]
    /\ op = "none"
    /\ path = "none"
    /\ nops = 0
    /\ cnt = 0
    /\ res = [n |-> n_sec(1970, 1, 1, 0, 0, 0), wd |-> NoLookup,
              yd |-> [v |-> 0, month |-> 1]]

\* $Type::new on the arguments; res.n is the record of the normalisation
\* the constructor runs.
NewCasts ==
    /\ pc = "input"
    /\ \E a \in {LeadingArgs(cur.kind, arg)} :
        \E r \in {T_new(cur.kind, arg)} :
            /\ pc' = IF r.ok THEN "value" ELSE "panic"
            /\ cur' = r.v
            /\ path' = r.path
            /\ res' = [res EXCEPT !.n = n_sec(a.y, a.m, a.d, a.hh, a.mm, a.ss)]
    /\ op' = "new"
    /\ nops' = nops + 1
    /\ UNCHANGED <<prev, arg, cnt>>

\* $Type::weekday: the lookups of Weekday::from_second.
WeekdayCasts ==
    /\ pc = "value"
    /\ op = "new"
    /\ res' = [res EXCEPT !.wd = Weekday_from_second(from_fields("Second", cur.f))]
    /\ op' = "weekday"
    /\ nops' = nops + 1
    /\ UNCHANGED <<pc, cur, prev, arg, path, cnt>>

\* $Type::yearday: the lookup of get_yearday.
YeardayCasts ==
    /\ pc = "value"
    /\ op = "new"
    /\ res' = [res EXCEPT !.yd = [v |-> yearday(cur), month |-> cur.f.m]]
    /\ op' = "yearday"
    /\ nops' = nops + 1
    /\ UNCHANGED <<pc, cur, prev, arg, path, cnt>>

NextCasts == NewCasts \/ WeekdayCasts \/ YeardayCasts

SpecCasts == InitCasts /\ [][NextCasts]_vars

\* ==================================================================== claims
\* C1: after any sequence of new(), +n, -n and From, the fields of the value
\* are a valid Gregorian date and time of day: month in 1..12, day in
\* 1..days-in-month under the leap rule, hour in 0..23, minute and second in
\* 0..59.
C1_FieldsValid == cur.kind # "None" => ValidFields(cur.f)

\* A leap day reached by normalising out-of-range arguments and stepping.
C1_Witness ==
    /\ pc = "value" /\ nops = MaxOps /\ op \in {"add", "sub"}
    /\ cur.f.m = 2 /\ cur.f.d = 29

\* C2: after any sequence of new(), +n, -n and From, every field inferior to
\* the alignment of the value is at its minimum (0 for the time fields, 1 for
\* month and day).
C2_InferiorFieldsPinned == cur.kind # "None" => AlignedTo(cur.kind, cur.f)

\* A CivilMonth obtained by From from a value whose day is not 1.
C2_Witness ==
    /\ pc = "value" /\ op = "from" /\ cur.kind = "Month"
    /\ prev.f.d # 1 /\ cur.f.d = 1

\* C3: CivilSecond::new(y, m, d, hh, mm, ss), for arguments of a bounded set
\* with negative and out-of-range values, is the point the reference calendar
\* reaches from day 1, 00:00:00 of the normalised month by d-1 days, hh hours,
\* mm minutes and ss seconds, one unit at a time; the construction does not
\* overflow.
C3_NewMatchesReference ==
    /\ pc # "panic"
    /\ pc = "value" =>
           cur = [kind |-> "Second",
                  f |-> RefNew(arg.y, arg.m, arg.d, arg.hh, arg.mm, arg.ss)]

\* Every argument but the year out of range, three of them negative.
C3_Witness ==
    /\ pc = "value" /\ path = "cascade"
    /\ arg.m < 1 /\ arg.d = -MaxWalk /\ arg.hh < 0 /\ arg.mm > 59 /\ arg.ss < 0

\* C4: CivilSecond::new returns the six fields of an already-canonical tuple
\* unchanged (days 29, 30 and 31 included where valid), and for days <= 28 it
\* returns through the fast path.
C4_Idempotent ==
    (pc = "value" /\ ValidFields(arg)) =>
        /\ cur.f = MkFields(arg.y, arg.m, arg.d, arg.hh, arg.mm, arg.ss)
        /\ arg.d <= 28 => path = "fast"
        /\ arg.d > 28 => path = "n_mon"

\* February 29 of a leap year, which leaves the fast path.
C4_Witness ==
    /\ pc = "value" /\ ValidFields(arg)
    /\ arg.m = 2 /\ arg.d = 29 /\ arg.hh = 23 /\ path = "n_mon"

\* C5: the second of CivilSecond::new(y, m, d, hh, mm, ss) is ss mod 60 in
\* 0..59 (floor modulo), and the value is that of
\* CivilSecond::new(y, m, d, hh, mm + floor(ss / 60), ss mod 60).
C5_SecondCarry ==
    pc = "value" =>
        /\ cur.f.ss = arg.ss % 60
        /\ \A r \in {CivilSecond_new(arg.y, arg.m, arg.d, arg.hh,
                                     arg.mm + (arg.ss \div 60), arg.ss % 60)} :
               r.ok /\ r.v = cur

\* ss = -121: second 59 and three minutes borrowed.
C5_Witness ==
    /\ pc = "value" /\ arg.ss = -121 /\ arg.mm = 14 /\ arg.hh = 17
    /\ cur.f.ss = 59 /\ cur.f.mm = 11 /\ cur.f.hh = 17

\* C6: for a day in 1..28 and a canonical time of day, new(y, m, d, hh, mm, ss)
\* has year y + floor((m-1)/12) and month ((m-1) mod 12) + 1, and the day and
\* the time of day are the arguments.
C6_MonthCarry ==
    (pc = "value" /\ arg.d \in 1..28 /\ arg.hh \in 0..23 /\ arg.mm \in 0..59
                  /\ arg.ss \in 0..59) =>
        cur.f = MkFields(arg.y + ((arg.m - 1) \div 12), ((arg.m - 1) % 12) + 1,
                         arg.d, arg.hh, arg.mm, arg.ss)

\* A negative multiple of 12 becomes December, three years back.
C6_Witness ==
    /\ pc = "value" /\ arg.m = -24 /\ arg.d = 28 /\ arg.hh = 23
    /\ cur.f.m = 12 /\ cur.f.y = arg.y - 3

\* C7: for a value a of any alignment and a representable n, (a + n) - a is
\* n and (a - n) - a is -n (for n other than the most negative scalar, whose
\* negation is not representable), computed without overflow.
C7_AddThenDifference ==
    /\ (pc = "value" /\ op = "add") =>
           /\ difference(cur, prev).ok
           /\ difference(cur, prev).v = arg.n
    /\ (pc = "value" /\ op = "sub" /\ arg.n # DiffMin) =>
           /\ difference(cur, prev).ok
           /\ difference(cur, prev).v = -arg.n

\* a + DiffMax and a - DiffMax of second, day and month values.
C7_Witness ==
    /\ pc = "value" /\ op \in {"add", "sub"} /\ arg.n = DiffMax
    /\ cur.kind \in {"Second", "Day", "Month"}
    /\ cur.f.y # prev.f.y

\* C8: (a - n) + n is a for every n, the most negative scalar included; for
\* that n, a - n is a advanced by 2^(Width-1) units (reached here in two steps
\* of 2^(Width-2)) and the subtraction does not overflow when that value is
\* representable.
C8_HalfStep == 2^(Width - 2)

C8_SubThenAdd ==
    /\ (pc = "value" /\ op = "sub") =>
           /\ add_diff(cur, arg.n).ok
           /\ add_diff(cur, arg.n).v = prev
    /\ (op = "sub" /\ arg.n = DiffMin /\ prev.kind # "None") =>
           LET h1 == add_diff(prev, C8_HalfStep)
               h2 == add_diff(h1.v, C8_HalfStep)
           IN  (h1.ok /\ h2.ok) => (pc = "value" /\ cur = h2.v)

\* a - DiffMin of a value of each alignment but Year, and of a CivilYear.
C8_Witness ==
    /\ pc = "value" /\ op = "sub" /\ arg.n = DiffMin
    /\ cur.kind \in {"Second", "Year"}

\* The day difference of the dates of a and b took the rebalancing branch.
DayRebalanced(a, b) ==
    day_difference(a.f.y, a.f.m, a.f.d, b.f.y, b.f.m, b.f.d).rebalanced

\* C9: for two values a, b of the same alignment, a - b is -(b - a), neither
\* difference overflows, and a - a is 0; also when the day difference
\* rebalances c4_diff by 800 years.
C9_Antisymmetric ==
    pc = "walk" =>
        /\ res.ab.ok /\ res.ba.ok
        /\ res.ab.v = -res.ba.v
        /\ cur = prev => res.ab.v = 0

\* Seconds either side of the year 399/400 block boundary: a - b rebalances
\* upwards and b - a downwards.
C9_Witness ==
    /\ pc = "walk" /\ cur.kind = "Second" /\ cnt > 0
    /\ DayRebalanced(cur, prev) /\ DayRebalanced(prev, cur)
    /\ res.ab.v > 0 /\ res.ba.v < 0

\* C10: CivilDay a - b is the signed number of single-day steps the reference
\* calendar takes from b to a, without overflow.
C10_DayCount ==
    (pc = "walk" /\ cur.kind = "Day") => (res.ab.ok /\ res.ab.v = cnt)

\* A date more than 800 years before b, in a negative year, whose day
\* difference rebalances.
C10_Witness ==
    /\ pc = "walk" /\ cur.kind = "Day" /\ op = "stride"
    /\ cnt < -(2 * 146097) /\ cur.f.y < -800 /\ DayRebalanced(cur, prev)
    /\ res.ab.v = cnt

\* C11: for two canonical dates with representable years whose true day
\* difference (the difference of their day numbers) is representable,
\* day_difference overflows in no intermediate operation and returns that
\* difference; so for the scalar maximum and minimum and for dates in the
\* first and last years of the range.
C11_DayDifferenceNoOverflow ==
    pc = "done" =>
        /\ cnt = RefOrdinal(cur.f) - RefOrdinal(prev.f)
        /\ Fits({cnt}) => (res.ab.ok /\ res.ab.v = cnt)
        /\ Fits({-cnt}) => (res.ba.ok /\ res.ba.v = -cnt)

\* a in the last year of the range and b the scalar maximum of days before
\* it, with the rebalancing branch taken: a - b is DiffMax.
C11_Witness ==
    /\ pc = "done" /\ cur.f.y > DiffMax - 400 /\ cnt = DiffMax
    /\ DayRebalanced(cur, prev) /\ res.ab.v = DiffMax /\ res.ab.ok

\* The weekday of a date on the reference calendar: day number 1 is a Monday.
RefWeekday(f) == Weekdays[((RefOrdinal(f) - 1) % 7) + 1]

\* The cyclic successor in Mon, Tue, Wed, Thu, Fri, Sat, Sun.
RefWeekdayAfter(w) ==
    Weekdays[((CHOOSE i \in 1..7 : Weekdays[i] = w) % 7) + 1]

\* C12: weekday() is the Gregorian weekday of the date of the value;
\* CivilDay(1970,1,1).weekday() is Thu, and for a CivilDay d the weekday of
\* d + 1 is the cyclic successor of the weekday of d.
C12_WeekdayTrue ==
    pc = "value" =>
        /\ res.wd = RefWeekday(cur.f)
        /\ (cur.f.y = 1970 /\ cur.f.m = 1 /\ cur.f.d = 1) => res.wd = "Thu"
        /\ (op = "add" /\ cur.kind = "Day") =>
               res.wd = RefWeekdayAfter(weekday(prev))

\* From Sunday 2000-02-27 the day walk has passed the leap day of 2000 and
\* has returned to a Monday.
C12_Witness ==
    /\ pc = "value" /\ op = "add" /\ cur.kind = "Day"
    /\ cur.f.y = 2000 /\ cur.f.m = 3 /\ cur.f.d = 6
    /\ res.wd = "Mon" /\ weekday(prev) = "Sun"

\* C13: for a CivilDay d and a weekday wd, next_weekday(d, wd) is a CivilDay
\* that falls on wd, next_weekday(d, wd) - d is in 1..7, and it is 7 exactly
\* when wd is the weekday of d: the nearest date strictly after d on wd.
C13_NextWeekday ==
    (pc = "value" /\ cur.kind = "Day") =>
        \A w \in WeekdaySet :
            \E r \in {res.next[w]} :
                /\ r.impl /\ r.ok /\ r.v.kind = "Day"
                /\ weekday(r.v) = w /\ RefWeekday(r.v.f) = w
                /\ difference(r.v, cur).ok
                /\ difference(r.v, cur).v \in 1..7
                /\ difference(r.v, cur).v = RefOrdinal(r.v.f) - RefOrdinal(cur.f)
                /\ (difference(r.v, cur).v = 7) <=> (w = res.wd)

\* Thursday 2015-08-13: the next Thursday is 2015-08-20, seven days on, the
\* next Friday the day after.
C13_Witness ==
    /\ pc = "value" /\ cur.kind = "Day" /\ res.wd = "Thu"
    /\ cur.f.y = 2015 /\ cur.f.m = 8 /\ cur.f.d = 13
    /\ res.next["Thu"].v.f.d = 20 /\ res.next["Fri"].v.f.d = 14

\* C14: for a CivilDay d and a weekday wd, prev_weekday(d, wd) is a CivilDay
\* that falls on wd and d - prev_weekday(d, wd) is in 1..7; so
\* next_weekday(d, wd) - prev_weekday(d, wd) is 14 when wd is the weekday of d
\* and 7 otherwise.
C14_PrevWeekday ==
    (pc = "value" /\ cur.kind = "Day") =>
        \A w \in WeekdaySet :
            \E r \in {res.prev[w]} :
                /\ r.impl /\ r.ok /\ r.v.kind = "Day"
                /\ weekday(r.v) = w /\ RefWeekday(r.v.f) = w
                /\ difference(cur, r.v).ok
                /\ difference(cur, r.v).v \in 1..7
                /\ difference(cur, r.v).v = RefOrdinal(cur.f) - RefOrdinal(r.v.f)
                /\ difference(res.next[w].v, r.v).v = (IF w = res.wd THEN 14 ELSE 7)

\* Thursday 2015-08-13: the previous Thursday is 2015-08-06, the previous
\* Wednesday the day before.
C14_Witness ==
    /\ pc = "value" /\ cur.kind = "Day" /\ res.wd = "Thu"
    /\ cur.f.y = 2015 /\ cur.f.m = 8 /\ cur.f.d = 13
    /\ res.prev["Thu"].v.f.d = 6 /\ res.prev["Wed"].v.f.d = 12

\* The result of a weekday method is that of the same search from the CivilDay
\* realignment of the receiver, and is a CivilDay.
SameAsOnDay(a, w, rn, rp) ==
    /\ rn.impl /\ rp.impl
    /\ rn.v.kind = "Day" /\ rp.v.kind = "Day"
    /\ \E n \in {next_weekday(from("Day", a), w)} : rn.ok = n.ok /\ rn.v = n.v
    /\ \E q \in {prev_weekday(from("Day", a), w)} : rp.ok = q.ok /\ rp.v = q.v
    /\ rn.ok => (RefWeekday(rn.v.f) = w /\ AlignedTo("Day", rn.v.f))
    /\ rp.ok => (RefWeekday(rp.v.f) = w /\ AlignedTo("Day", rp.v.f))

\* C15 as stated: next_weekday and prev_weekday exist on values of all six
\* alignments and return the CivilDay the same operation returns on the
\* CivilDay realignment of the receiver.
C15_OnEveryAlignment ==
    pc = "value" =>
        \A w \in WeekdaySet : SameAsOnDay(cur, w, res.next[w], res.prev[w])

\* A CivilMonth, for which the type has neither method.
C15_Witness ==
    /\ pc = "value" /\ cur.kind = "Month" /\ cur.f.y = 2015 /\ cur.f.m = 8
    /\ ~res.next["Thu"].impl /\ ~res.prev["Thu"].impl

\* Seconds since midnight.
RefTimeOfDay(f) == (f.hh * 60 + f.mm) * 60 + f.ss

\* The order of two canonical field tuples on the civil-time line (which is
\* the lexicographic order of year, month, day, hour, minute, second).
RefCompare(f, g) ==
    IF RefOrdinal(f) < RefOrdinal(g) THEN "Less"
    ELSE IF RefOrdinal(f) > RefOrdinal(g) THEN "Greater"
    ELSE IF RefTimeOfDay(f) < RefTimeOfDay(g) THEN "Less"
    ELSE IF RefTimeOfDay(f) > RefTimeOfDay(g) THEN "Greater"
    ELSE "Equal"

RefLexLess(s, t) ==
    \E i \in 1..6 : s[i] < t[i] /\ \A k \in 1..(i - 1) : s[k] = t[k]

\* C16: equality and ordering of two civil-time values of any alignments are
\* the lexicographic comparison of the six fields; they form a total order
\* (the two directions are opposite, equality is comparing Equal, and the
\* order is transitive through every third value); values of different
\* alignments are equal exactly when the six fields coincide, so a value
\* realigned to a finer type equals the original.
C16_LexicographicOrder ==
    pc = "done" =>
        /\ res.cmp = RefCompare(cur.f, prev.f)
        /\ (res.cmp = "Less") <=>
               RefLexLess(<<cur.f.y, cur.f.m, cur.f.d, cur.f.hh, cur.f.mm, cur.f.ss>>,
                          <<prev.f.y, prev.f.m, prev.f.d, prev.f.hh, prev.f.mm,
                            prev.f.ss>>)
        /\ res.eq <=> (cur.f = prev.f)
        /\ res.eq <=> (res.cmp = "Equal")
        /\ res.rev = (CASE res.cmp = "Less" -> "Greater"
                        [] res.cmp = "Greater" -> "Less"
                        [] OTHER -> "Equal")
        /\ \A z \in CmpValues :
               (res.cmp # "Greater" /\ partial_cmp(prev, z) # "Greater")
                   => partial_cmp(cur, z) # "Greater"
        /\ \A k \in KindSet : eq(from(k, cur), cur) <=> AlignedTo(k, cur.f)

\* A CivilDay and a CivilSecond with the same six fields are equal; so a
\* CivilDay and its realignment to CivilSecond.
C16_Witness ==
    /\ pc = "done" /\ cur.kind = "Day" /\ prev.kind = "Second"
    /\ prev = from("Second", cur) /\ res.eq /\ res.cmp = "Equal"
    /\ cur.f.y = 2015 /\ cur.f.m = 6 /\ cur.f.d = 1

\* Alignment k1 is coarser than alignment k2.
Coarser(k1, k2) ==
    (CHOOSE i \in 1..6 : Kinds[i] = k1) > (CHOOSE i \in 1..6 : Kinds[i] = k2)

\* T::new of the leading fields of f, for the type T of alignment k.
NewOfLeading(k, f) ==
    CASE k = "Second" -> CivilSecond_new(f.y, f.m, f.d, f.hh, f.mm, f.ss)
      [] k = "Minute" -> CivilMinute_new(f.y, f.m, f.d, f.hh, f.mm)
      [] k = "Hour"   -> CivilHour_new(f.y, f.m, f.d, f.hh)
      [] k = "Day"    -> CivilDay_new(f.y, f.m, f.d)
      [] k = "Month"  -> CivilMonth_new(f.y, f.m)
      [] k = "Year"   -> CivilYear_new(f.y)

\* The fields of f down to alignment k, the others at their minimum.
RefTruncate(k, f) ==
    MkFields(f.y,
             IF Coarser(k, "Month") THEN 1 ELSE f.m,
             IF Coarser(k, "Day") THEN 1 ELSE f.d,
             IF Coarser(k, "Hour") THEN 0 ELSE f.hh,
             IF Coarser(k, "Minute") THEN 0 ELSE f.mm,
             IF Coarser(k, "Second") THEN 0 ELSE f.ss)

\* C17: for a value v and a type T of a coarser alignment, T::from(v) is T::new
\* of the leading fields of v; converting the result back to the type of v
\* gives the leading fields of v with the discarded fields at their minimum,
\* which is v only if v had them at their minimum.
C17_FromIsNewOfLeading ==
    (pc = "value" /\ op = "from" /\ Coarser(cur.kind, prev.kind)) =>
        /\ \E r \in {NewOfLeading(cur.kind, prev.f)} : r.ok /\ r.v = cur
        /\ \E back \in {from(prev.kind, cur)} :
            /\ back.kind = prev.kind
            /\ back.f = RefTruncate(cur.kind, prev.f)
            /\ (back = prev) <=> AlignedTo(cur.kind, prev.f)

\* CivilMonth::from of a CivilSecond with a day, a minute and a second to
\* discard.
C17_Witness ==
    /\ pc = "value" /\ op = "from" /\ cur.kind = "Month" /\ prev.kind = "Second"
    /\ prev.f.d > 1 /\ prev.f.ss > 0
    /\ from("Second", cur) # prev

\* C18: CivilDay::new(y, 2, 28) + 1 is (y, 2, 29) when y is divisible by 4 and
\* not by 100, or by 400, and (y, 3, 1) otherwise; and
\* CivilDay::from(CivilYear(y) + 1) - CivilDay::from(CivilYear(y)) is 366 in
\* those years and 365 otherwise; 1900 and 2100 are not leap years, 2000 is.
C18_LeapYearBoundary ==
    /\ pc # "panic"
    /\ pc \in {"value", "done"} =>
           cur = from_fields("Day",
                     IF arg.y % 4 = 0 /\ (arg.y % 100 # 0 \/ arg.y % 400 = 0)
                     THEN MkFields(arg.y, 2, 29, 0, 0, 0)
                     ELSE MkFields(arg.y, 3, 1, 0, 0, 0))
    /\ pc = "done" =>
           /\ res.ab.ok
           /\ res.ab.v = (IF arg.y % 4 = 0 /\ (arg.y % 100 # 0 \/ arg.y % 400 = 0)
                          THEN 366 ELSE 365)
           /\ arg.y \in {1900, 2100} => (res.ab.v = 365 /\ cur.f.m = 3)
           /\ arg.y = 2000 => (res.ab.v = 366 /\ cur.f.m = 2)

\* 1900: divisible by 4 and by 100, not by 400.
C18_Witness ==
    /\ pc = "done" /\ arg.y = 1900 /\ res.ab.v = 365
    /\ cur.f.m = 3 /\ cur.f.d = 1

\* C19: for every civil-time value v, yearday() lies in 1..366 (at most 365 in
\* a non-leap year) and equals
\* 1 + (CivilDay::from(v) - CivilDay::from(CivilYear::from(v))); it is 1 for
\* every CivilYear and 365 or 366 for December 31 according to the leap rule.
C19_Yearday ==
    pc = "value" =>
        /\ res.yd \in 1..366
        /\ ~RefLeap(cur.f.y) => res.yd <= 365
        /\ \E n \in {difference(from("Day", cur), from("Day", from("Year", cur)))} :
               n.ok /\ res.yd = 1 + n.v
        /\ cur.kind = "Year" => res.yd = 1
        /\ (cur.f.m = 12 /\ cur.f.d = 31) =>
               res.yd = (IF RefLeap(cur.f.y) THEN 366 ELSE 365)

\* December 31 of the leap year 2000, reached by walking day by day across
\* the leap day.
C19_Witness ==
    /\ pc = "value" /\ op = "add" /\ cur.kind = "Day"
    /\ cur.f.y = 2000 /\ cur.f.m = 12 /\ cur.f.d = 31
    /\ res.yd = 366

\* The point n units of alignment k after f on the reference calendar: by
\* month and day numbers for the long units, one unit at a time otherwise.
TrueStep(k, f, n) ==
    CASE k = "Year"  -> [f EXCEPT !.y = f.y + n]
      [] k = "Month" -> [f EXCEPT !.y = (12 * f.y + (f.m - 1) + n) \div 12,
                                  !.m = ((12 * f.y + (f.m - 1) + n) % 12) + 1]
      [] k = "Day"   -> RefDate(RefOrdinal(f) + n)
      [] OTHER       -> RefAdvance(k, f, n)

\* The true result of the last operation.
TrueResult ==
    CASE op = "new" -> RefNew(arg.y, arg.m, arg.d, arg.hh, arg.mm, arg.ss)
      [] op = "add" -> TrueStep(prev.kind, prev.f, arg.n)
      [] op = "sub" -> TrueStep(prev.kind, prev.f, -arg.n)
      [] OTHER      -> cur.f

\* C20: for every new(y, m, d, hh, mm, ss) and every + n / - n whose true
\* canonical result has a representable year, no intermediate computation of
\* the n_sec -> n_min -> n_hour -> n_mon -> n_day cascade leaves the
\* representable range, also at the extreme years where the month carry alone
\* passes the year bound and the day or hour borrow brings the date back.
C20_NoSpuriousOverflow ==
    pc = "panic" => ~Fits({TrueResult.y})

\* new(MAX, 13, 0): January 0 of the year after the last one is December 31
\* of the last year, yet the month carry of n_mon has left the range.
C20_Witness ==
    /\ pc = "panic" /\ op = "new"
    /\ arg = MkArg(DiffMax, 13, 0, 0, 0, 0)
    /\ TrueResult = MkFields(DiffMax, 12, 31, 0, 0, 0)

\* + n and - n alone: an overflow of step is an overflow of the true result,
\* and a result that is returned is the true one.
StepHasNoSpuriousOverflow ==
    /\ (pc = "panic" /\ op \in {"add", "sub"}) => ~Fits({TrueResult.y})
    /\ pc = "value" => cur.f = TrueResult

\* C21: for each alignment T, T::MIN and T::MAX are aligned values of T whose
\* years are the minimum and the maximum of the scalar type (MAX is
\* year-max 12-31 23:59:59 aligned to T, MIN is year-min 01-01 00:00:00), and
\* every value v of alignment T reached by construction or arithmetic
\* satisfies T::MIN <= v <= T::MAX.
C21_MinMaxBound ==
    /\ \A k \in KindSet :
        /\ MAX(k).ok /\ MIN(k).ok
        /\ MAX(k).v = [kind |-> k,
                       f |-> RefTruncate(k, MkFields(DiffMax, 12, 31, 23, 59, 59))]
        /\ MIN(k).v = [kind |-> k, f |-> MkFields(DiffMin, 1, 1, 0, 0, 0)]
        /\ AlignedTo(k, MAX(k).v.f) /\ AlignedTo(k, MIN(k).v.f)
    /\ pc = "value" =>
        /\ partial_cmp(MIN(cur.kind).v, cur) \in {"Less", "Equal"}
        /\ partial_cmp(cur, MAX(cur.kind).v) \in {"Less", "Equal"}
        /\ RefCompare(MIN(cur.kind).v.f, cur.f) # "Greater"
        /\ RefCompare(cur.f, MAX(cur.kind).v.f) # "Greater"

\* CivilYear::MAX itself, reached by + 1 from the year before.
C21_Witness ==
    /\ pc = "value" /\ op = "add" /\ arg.n = 1
    /\ cur = MAX("Year").v
    /\ cur.f.y = DiffMax /\ cur.f.m = 1 /\ cur.f.d = 1

\* The number of units of alignment k from g to f on the reference calendar.
RefElapsed(k, f, g) ==
    CASE k = "Year"   -> f.y - g.y
      [] k = "Month"  -> 12 * (f.y - g.y) + (f.m - g.m)
      [] k = "Day"    -> RefOrdinal(f) - RefOrdinal(g)
      [] k = "Hour"   -> 24 * (RefOrdinal(f) - RefOrdinal(g)) + (f.hh - g.hh)
      [] k = "Minute" -> 1440 * (RefOrdinal(f) - RefOrdinal(g))
                             + (60 * f.hh + f.mm) - (60 * g.hh + g.mm)
      [] k = "Second" -> 86400 * (RefOrdinal(f) - RefOrdinal(g))
                             + RefTimeOfDay(f) - RefTimeOfDay(g)

\* C22: for f in {12, 24, 60} and a residual a with |a| < f, whenever v*f + a
\* is representable every intermediate of scale_add(v, f, a) is representable
\* and the result is v*f + a, for v negative, zero and positive; hence a
\* CivilSecond / CivilMinute / CivilHour / CivilMonth difference equal to the
\* scalar minimum or maximum is returned exactly, also when the coarser
\* difference times f alone would overflow.
C22_ScaleAddNoOverflow ==
    /\ (pc = "done" /\ path = "scale_add" /\ Fits({arg.v * arg.f + arg.a})) =>
           /\ res.ab.ok
           /\ res.ab.v = arg.v * arg.f + arg.a
    /\ (path = "difference") => pc # "panic"
    /\ (pc = "done" /\ path = "difference") =>
           /\ RefElapsed(cur.kind, cur.f, prev.f) = arg.n
           /\ res.ab.ok /\ res.ab.v = arg.n
           /\ Fits({-arg.n}) => (res.ba.ok /\ res.ba.v = -arg.n)

\* A second difference equal to the scalar minimum whose minute difference
\* times 60 is below the minimum.
C22_Witness ==
    /\ pc = "done" /\ path = "difference" /\ cur.kind = "Second"
    /\ res.ab.ok /\ res.ab.v = DiffMin
    /\ \E c \in {Minute_difference(cur.f, prev.f)} :
           c.ok /\ c.v * 60 < DiffMin /\ cur.f.ss > prev.f.ss

\* C23: each difference is the next-coarser difference scaled plus the
\* residual of its own field: year diff = a.y - b.y, month diff =
\* 12*(year diff) + (a.m - b.m), hour diff = 24*(day diff) + (a.hh - b.hh),
\* minute diff = 60*(hour diff) + (a.mm - b.mm), second diff =
\* 60*(minute diff) + (a.ss - b.ss); so the second difference is the number
\* of elapsed seconds 86400*days + 3600*dh + 60*dm + ds.
C23_DifferenceChain ==
    pc = "walk" =>
        \E f \in {cur.f}, g \in {prev.f} :
        \E y \in {Year_difference(f, g)}, mo \in {Month_difference(f, g)},
           d \in {Day_difference(f, g)} :
            /\ y.ok /\ y.v = f.y - g.y
            /\ mo.ok /\ mo.v = 12 * y.v + (f.m - g.m)
            /\ d.ok /\ d.v = RefOrdinal(f) - RefOrdinal(g)
            /\ cur.kind = "Year" => res.ab = y
            /\ cur.kind = "Month" => (res.ab = mo /\ mo.v = cnt)
            /\ cur.kind \in {"Hour", "Minute", "Second"} =>
                \E h \in {Hour_difference(f, g)} :
                    /\ h.ok /\ h.v = 24 * d.v + (f.hh - g.hh)
                    /\ cur.kind = "Hour" => (res.ab = h /\ h.v = cnt)
                    /\ cur.kind \in {"Minute", "Second"} =>
                        \E mi \in {Minute_difference(f, g)} :
                            /\ mi.ok /\ mi.v = 60 * h.v + (f.mm - g.mm)
                            /\ cur.kind = "Minute" => (res.ab = mi /\ mi.v = cnt)
                            /\ cur.kind = "Second" =>
                                \E sd \in {Second_difference(f, g)} :
                                    /\ sd.ok /\ res.ab = sd
                                    /\ sd.v = 60 * mi.v + (f.ss - g.ss)
                                    /\ sd.v = 86400 * d.v + 3600 * (f.hh - g.hh)
                                                + 60 * (f.mm - g.mm) + (f.ss - g.ss)
                                    /\ sd.v = cnt

\* Seconds before midnight of December 31 and after midnight of January 1:
\* one day forward and the hour, minute and second residuals negative.
C23_Witness ==
    /\ pc = "walk" /\ cur.kind = "Second" /\ cnt > 0
    /\ cur.f.y = prev.f.y + 1
    /\ cur.f.hh < prev.f.hh /\ cur.f.mm < prev.f.mm /\ cur.f.ss < prev.f.ss
    /\ res.ab.v = cnt

\* C24: the shortcuts of n_day do not change its result: for anchors (y, m),
\* day values d and carry-day values cd covering more than two 400-year cycles
\* in both directions, n_day (146097-day reduction, previous-year special
\* case, century chunks, 4-year chunks, years, months) returns the year,
\* month and day the reference calendar reaches by walking the same count of
\* days one month at a time (and the last days singly).
C24_NDayMatchesWalk ==
    pc = "walk" =>
        \A j \in DayOffsets :
            \E t \in {RefAdvance("Day", cur.f, j)} :
                \A i \in 1..4 :
                    /\ res[j][i].ok
                    /\ res[j][i].f = t

\* More than two 400-year cycles before the anchor, with century, 4-year and
\* year chunks all taken.
C24_Witness ==
    /\ pc = "walk" /\ cnt < -(2 * 146097) /\ cur.f.y < prev.f.y - 800
    /\ res[30][2].c100 > 0 /\ res[30][2].c4 > 0 /\ res[30][2].c1 > 0
    /\ res[30][2].cm > 0

\* C25: n_day terminates with a loop count independent of the magnitude of its
\* inputs: after the 146097-day reductions the remaining day count is in
\* 1..146097, and the century loop then subtracts at most 3 times, the 4-year
\* loop at most 24 times, the single-year loop at most 3 times and the month
\* loop at most 11 times.
C25_NDayLoopBounds ==
    pc = "walk" =>
        \A j \in DayOffsets, i \in 1..4 :
            \E r \in {res[j][i]} :
                /\ r.dred \in 1..146097
                /\ r.c100 \in 0..3
                /\ r.c4 \in 0..24
                /\ r.c1 \in 0..3
                /\ r.cm \in 0..11

\* A day count more than two cycles away passed with d and cd of opposite
\* signs: every loop runs its maximum number of times.
C25_Witness ==
    /\ pc = "walk" /\ cnt < 0
    /\ \E r \in {res[0][3]} :
        /\ r.c100 = 3 /\ r.c4 = 24 /\ r.c1 = 3 /\ r.cm = 11
        /\ r.dred > 146097 - 31

\* C26: in next_weekday and prev_weekday the position i of the current weekday
\* in the doubled 14-entry table is at most 6 and the scan from i + 1 finds the
\* target after at most 7 steps with j <= 13, so the search terminates, never
\* indexes outside the table and yields an offset j - i in 1..7.
C26_ScanBounded ==
    (pc = "value" /\ cur.kind \in WeekdayOpsKinds) =>
        \A w \in WeekdaySet :
            /\ \A r \in {res.next[w], res.prev[w]} :
                   /\ r.ok
                   /\ r.i \in 0..6
                   /\ r.j \in (r.i + 1)..13
                   /\ r.j - r.i \in 1..7
            /\ WEEKDAYS_FORW[res.next[w].i + 1] = res.wd
            /\ WEEKDAYS_FORW[res.next[w].j + 1] = w
            /\ WEEKDAYS_BACK[res.prev[w].i + 1] = res.wd
            /\ WEEKDAYS_BACK[res.prev[w].j + 1] = w
            /\ Len(WEEKDAYS_FORW) = 14 /\ Len(WEEKDAYS_BACK) = 14

\* A Sunday asked for the next Sunday: i = 6 and j = 13, the last entry of
\* the table.
C26_Witness ==
    /\ pc = "value" /\ cur.kind = "Day" /\ res.wd = "Sun"
    /\ res.next["Sun"].i = 6 /\ res.next["Sun"].j = 13
    /\ res.prev["Mon"].j - res.prev["Mon"].i = 6

\* C27: stepping composes additively: for each of the six alignments, every
\* value a and all n, k whose results are representable, (a + n) + k is
\* a + (n + k); a + 0 is a; and a sequence of + and - steps ends at the value
\* reached by one step of the summed amount.
C27_StepsCompose ==
    pc = "value" =>
        /\ add_diff(cur, 0).ok /\ add_diff(cur, 0).v = cur
        /\ cnt = 0 => cur = prev
        /\ Fits({cnt}) => \E r \in {add_diff(prev, cnt)} : r.ok /\ r.v = cur

\* Two steps of a minute value with opposite signs that are not multiples of
\* an hour, ending in another year.
C27_Witness ==
    /\ pc = "value" /\ nops = 2 /\ cur.kind = "Minute"
    /\ cnt = 366 - 25 /\ op = "sub" /\ arg.n = 25
    /\ cur.f.y # prev.f.y

\* C28: ordering agrees with difference: for two values a, b of the same
\* alignment, a < b exactly when a - b < 0 and a == b exactly when a - b == 0;
\* therefore a + n > a and a - n < a for every n > 0.
C28_OrderAgreesWithDifference ==
    pc = "value" =>
        /\ \E d \in {difference(cur, prev)}, c \in {partial_cmp(cur, prev)} :
            /\ Fits({cnt}) => (d.ok /\ d.v = cnt)
            /\ d.ok =>
                /\ (c = "Less") <=> (d.v < 0)
                /\ (c = "Equal") <=> (d.v = 0)
                /\ (c = "Greater") <=> (d.v > 0)
                /\ eq(cur, prev) <=> (d.v = 0)
        /\ \A n \in StepDiffs :
            n > 0 =>
                /\ \E r \in {add_diff(cur, n)} :
                       r.ok => partial_cmp(r.v, cur) = "Greater"
                /\ \E r \in {sub_diff(cur, n)} :
                       r.ok => partial_cmp(r.v, cur) = "Less"

\* A month value 341 months before the start, in an earlier year but a later
\* month of the year.
C28_Witness ==
    /\ pc = "value" /\ cur.kind = "Month" /\ cnt = 25 - 366
    /\ cur.f.y < prev.f.y /\ cur.f.m > prev.f.m
    /\ partial_cmp(cur, prev) = "Less" /\ difference(cur, prev).v = cnt

\* C29: realignment rounds toward the past: for every value x and every
\* alignment T, T::from(x) <= x under the six-field comparison, with equality
\* exactly when the fields of x inferior to T are at their minimum, for
\* negative years too; and T::from(T::from(x)) is T::from(x).
C29_FromRoundsDown ==
    pc = "value" =>
        /\ \A k \in KindSet :
            \E t \in {from(k, cur)} :
                /\ t.kind = k
                /\ partial_cmp(t, cur) \in {"Less", "Equal"}
                /\ RefCompare(t.f, cur.f) # "Greater"
                /\ eq(t, cur) <=> AlignedTo(k, cur.f)
                /\ (partial_cmp(t, cur) = "Equal") <=> AlignedTo(k, cur.f)
                /\ from(k, t) = t
        /\ op = "from" =>
            /\ partial_cmp(cur, prev) \in {"Less", "Equal"}
            /\ cur = from(cur.kind, prev)

\* A second value of a negative year, late in the last day of a month,
\* realigned to its day.
C29_Witness ==
    /\ pc = "value" /\ op = "from" /\ cur.kind = "Day" /\ prev.kind = "Second"
    /\ cur.f.y < 0 /\ prev.f.hh = 23 /\ prev.f.ss > 0
    /\ partial_cmp(cur, prev) = "Less"

\* C30: no narrowing cast and no table lookup is out of range, whatever the
\* integer arguments: n_day casts a day in 1..31, n_mon passes a month in 1..12,
\* hour, minute and second are in 0..23, 0..59, 0..59 before their casts,
\* days_per_century and days_per_4years are called with yi in 0..399, `yi - 1`
\* is evaluated only for yi >= 1, DAYS_PER_MONTH, WEEKDAY_OFFSETS and
\* MONTH_OFFSETS are read at a month in 1..12 (never at index 0), and the
\* weekday lookup index wd % 7 + 6 is in 6..12.
C30_CastsAndIndicesInRange ==
    /\ op \in {"new", "weekday", "yearday"} =>
        /\ res.n.dpre \in 1..31
        /\ res.n.mpre \in 1..12
        /\ res.n.hpre \in 0..23
        /\ res.n.minpre \in 0..59
        /\ res.n.spre \in 0..59
        /\ res.n.yis \subseteq 0..399
        /\ res.n.subs \subseteq 0..398
        /\ res.n.mis \subseteq 1..12
    /\ op = "weekday" => (res.wd.index \in 6..12 /\ res.wd.month \in 1..12)
    /\ op = "yearday" => res.yd.month \in 1..12

\* Arguments at the ends of the integer range in a year before year 0: every
\* cast follows a carry, both chunk loops ran (with `yi - 1` evaluated) and
\* the month table was read; the weekday of the result was then looked up.
C30_Witness ==
    /\ op = "weekday"
    /\ arg.y < 0 /\ arg.m = DiffMin /\ arg.mm = DiffMax /\ arg.ss = DiffMin
    /\ res.n.path = "cascade"
    /\ res.n.c100 > 0 /\ res.n.c4 > 0
    /\ res.n.subs # {}
    /\ res.n.mis # {}
    /\ res.wd.index \in 6..12

====
